---- MODULE Spec2Model ----
(***************************************************************************)
(* Document validation engine of multi-pdf-summarizer                      *)
(* (src/document_validator.py): DocumentValidator (loader, collector,      *)
(* rule engine) and process_document (aggregation into a severity          *)
(* mapping, temp-file cleanup).                                            *)
(*                                                                         *)
(* One behaviour is a sequence of process_document calls on one origin.    *)
(* The document behind the origin, the local filesystem and the            *)
(* credentials are fixed by Init; the outcome of every network request     *)
(* and the interpreter's string-hash seed are chosen when they are used.   *)
(*                                                                         *)
(* Modelled documents: core properties, protection settings, language,     *)
(* tables, hyperlink relationships, bookmarkStart elements, a footer       *)
(* page field, sections, body paragraphs in 'Normal' whose text is made of *)
(* letters and spaces, each of one run without formatting, and body runs   *)
(* of empty text that may hold text-box hyperlinks (at most 10 paragraphs  *)
(* in all). Rules that look for keywords or special characters in the      *)
(* text, or inspect paragraph styles, run formatting, images, comments or  *)
(* embedded objects find nothing on such a document; they are the rules    *)
(* RuleIssues leaves to its OTHER branch.                                  *)
(***************************************************************************)
EXTENDS Integers, Sequences, FiniteSets, TLC

(***************************************************************************)
(* Bounds of the model.                                                    *)
(***************************************************************************)
MaxTables == 2
MaxLinks == 2
MaxBookmarks == 2
MaxRuns == 2
MaxParagraphs == 3
MaxDocs == 2
MaxSections == 2
MaxTocParas == 2
MaxStyles == 2
MaxJobs == 2

(***************************************************************************)
(* Program constants.                                                      *)
(***************************************************************************)
VALID_TABLE_STYLES == {"Table Grid", "Table Normal"}
WideTableCols == 7
SmallFontPt == 9
DupMinLen == 50
ExcerptLen == 50
TocMinParagraphs == 10
NumEndpoints == 4

NoFile == 0
NoRule == "none"
NoDoc == [loaded |-> FALSE]

(***************************************************************************)
(* ValidationResult(issue, location, details, severity)                    *)
(***************************************************************************)
ValidationResult(issue, location, details, severity) ==
    [issue |-> issue, location |-> location, details |-> details,
     severity |-> severity]

Severities == {"Error", "Warning", "Info"}

(***************************************************************************)
(* The order of run_all_checks.                                            *)
(***************************************************************************)
RuleOrder ==
    << "check_document_properties", "check_document_protection",
       "check_metadata", "check_corrupt_styles", "check_styles",
       "check_text_formatting", "check_hidden_text",
       "check_highlighted_text", "check_track_changes",
       "check_manual_page_breaks", "check_special_characters",
       "check_whitespace_issues", "check_language_settings",
       "check_hyperlinks", "check_bookmarks", "check_cross_references",
       "check_table_of_contents", "check_tables", "check_table_formatting",
       "check_table_structure", "check_images", "check_embedded_objects",
       "check_charts", "check_headers_footers", "check_page_numbers",
       "check_watermarks", "check_lists", "check_numbering_consistency",
       "check_sections", "check_page_layout", "check_margins",
       "check_fields", "check_footnotes_endnotes", "check_comments",
       "check_revisions", "check_placeholders", "check_duplicate_content",
       "check_orphan_widow_control", "check_blue_text_not_linked",
       "check_heading_hyperlink_issues", "check_image_issues",
       "check_table_issues", "check_non_black_text",
       "check_special_characters_advanced", "check_orphan_captions",
       "check_special_keywords", "check_strikethrough_text",
       "check_unused_bookmarks", "check_weblinks",
       "check_empty_key_properties", "check_external_references",
       "check_instructional_text", "check_internal_links",
       "check_internal_references", "check_caption_labels",
       "check_language_issues", "check_narrative_formatting",
       "check_page_layout_advanced", "check_standard_styles" >>

NumRules == Len(RuleOrder)

RuleNames == {RuleOrder[i] : i \in 1..NumRules}

RuleIndex(r) == CHOOSE i \in 1..NumRules : RuleOrder[i] = r

(* Rules whose body is only the `if not self.doc: return` guard and pass.  *)
StubRules ==
    {"check_corrupt_styles", "check_language_settings",
     "check_table_structure", "check_charts", "check_numbering_consistency",
     "check_sections", "check_page_layout", "check_margins", "check_fields",
     "check_revisions", "check_placeholders"}

(* Rules whose whole body sits in a try/except that appends an issue.      *)
GuardedRules ==
    {"check_document_protection", "check_unused_bookmarks",
     "check_internal_links", "check_weblinks", "check_page_layout_advanced"}

(* The issue a guarded rule appends from its except clause.                *)
GuardIssue(r) ==
    CASE r = "check_document_protection" ->
            ValidationResult("Document Protection", "Document",
                "Could not verify document protection settings", "Warning")
      [] r = "check_unused_bookmarks" ->
            ValidationResult("Bookmark Check Error", "Document",
                "Could not complete bookmark validation", "Error")
      [] r = "check_internal_links" ->
            ValidationResult("Internal Link Check Error", "Document",
                "Could not complete internal link validation", "Error")
      [] r = "check_weblinks" ->
            ValidationResult("Web Link Check Error", "Document",
                "Could not complete web link validation", "Error")
      [] r = "check_page_layout_advanced" ->
            ValidationResult("Page Layout Check Error", "Document",
                "Could not complete page layout validation", "Error")

(***************************************************************************)
(* Sequence helpers.                                                       *)
(***************************************************************************)
RECURSIVE Flatten(_)
Flatten(ss) ==
    IF ss = <<>> THEN <<>> ELSE Head(ss) \o Flatten(Tail(ss))

RECURSIVE SelectSeqBy(_, _)
SelectSeqBy(s, sev) ==
    IF s = <<>> THEN <<>>
    ELSE IF Head(s).severity = sev
         THEN <<Head(s)>> \o SelectSeqBy(Tail(s), sev)
         ELSE SelectSeqBy(Tail(s), sev)

Range(s) == {s[i] : i \in 1..Len(s)}

CountLabel(s, label) == Cardinality({i \in 1..Len(s) : s[i].issue = label})

IsPrefix(s, t) == Len(s) <= Len(t) /\ SubSeq(t, 1, Len(s)) = s

SeqsUpTo(S, n) == UNION {[1..k -> S] : k \in 0..n}

(***************************************************************************)
(* Documents: what docx.Document(path) yields for the file at the origin.  *)
(***************************************************************************)
PropNames == {"title", "subject", "author", "keywords", "category"}

(* A core property is "" (absent or empty), whitespace only, or filled.    *)
PropVals == {"", " ", "x"}

(* str.strip(): the only whitespace of the model's strings is the space.   *)
RECURSIVE Strip(_)
Strip(s) ==
    IF s = "" THEN ""
    ELSE IF SubSeq(s, 1, 1) = " " THEN Strip(SubSeq(s, 2, Len(s)))
    ELSE IF SubSeq(s, Len(s), Len(s)) = " "
         THEN Strip(SubSeq(s, 1, Len(s) - 1))
    ELSE s

(* `sub in s` for strings.                                                 *)
Contains(s, sub) ==
    \E i \in 1..(Len(s) - Len(sub) + 1) : SubSeq(s, i, i + Len(sub) - 1) = sub

(* s[:n]                                                                   *)
Excerpt(s, n) == IF Len(s) <= n THEN s ELSE SubSeq(s, 1, n)

(* Paragraph texts of 40, 50, 51 and 60 characters, and the last one with  *)
(* a trailing space. Text51 and Text60 agree on their first 50 characters. *)
Text40 == "aaaaaaaaaaaaaaaaaaaaaaaaaaaaaaaaaaaaaaaa"
Text50 == "aaaaaaaaaaaaaaaaaaaaaaaaaaaaaaaaaaaaaaaaaaaaaaaaaa"
Text51 == "aaaaaaaaaaaaaaaaaaaaaaaaaaaaaaaaaaaaaaaaaaaaaaaaaaa"
Text60 == "aaaaaaaaaaaaaaaaaaaaaaaaaaaaaaaaaaaaaaaaaaaaaaaaaaaaaaaaaaaa"
Text60Padded == Text60 \o " "

ParaTexts == {Text40, Text50, Text51, Text60, Text60Padded}

BookmarkNames == {"B1", "B2", "_Toc1"}
AnchorNames == {"B1", "B2"}

(* str.startswith('_') on BookmarkNames.                                   *)
StartsWithUnderscore(n) == n = "_Toc1"

TBlank ==
    [rows |-> << <<"", " ">>, <<"a", "b">> >>, cols |-> 2, hdr |-> FALSE,
     style |-> "Table Grid", fonts |-> <<>>, gridSpans |-> <<>>, vMerge |-> 0]

THead ==
    [rows |-> << <<"Name", "Qty">>, <<"a", "b">> >>, cols |-> 2,
     hdr |-> FALSE, style |-> "Table Grid", fonts |-> <<>>,
     gridSpans |-> <<>>, vMerge |-> 0]

TWide ==
    [rows |-> << <<"Name", "Qty">> >>, cols |-> 8, hdr |-> FALSE,
     style |-> "Light List", fonts |-> <<7, 9>>, gridSpans |-> <<>>,
     vMerge |-> 0]

TSeven ==
    [rows |-> << <<"Name", "Qty">>, <<"a", "b">> >>, cols |-> 7,
     hdr |-> FALSE, style |-> "Table Grid", fonts |-> <<9>>,
     gridSpans |-> <<>>, vMerge |-> 0]

TableKinds == {TBlank, THead, TWide, TSeven}

(* A table whose first two rows are identical and not marked as header,    *)
(* and one whose first row is marked as header row and has no text.        *)
TSame ==
    [rows |-> << <<"a", "b">>, <<"a", "b">> >>, cols |-> 2, hdr |-> FALSE,
     style |-> "Table Grid", fonts |-> <<>>, gridSpans |-> <<>>, vMerge |-> 0]

TMarked ==
    [rows |-> << <<"", "">>, <<"a", "b">> >>, cols |-> 2, hdr |-> TRUE,
     style |-> "Table Grid", fonts |-> <<>>, gridSpans |-> <<>>, vMerge |-> 0]

LinkKinds == {[target |-> ""], [target |-> "http://x"]}

(* A body run: empty text, no character formatting, and the anchors of the *)
(* w:hyperlink elements found below the run element (a text box).          *)
RunKinds ==
    {[anchors |-> <<>>, bookmark |-> ""]}
        \cup {[anchors |-> <<n>>, bookmark |-> ""] : n \in AnchorNames}

BaseSection ==
    [left |-> 100, right |-> 100, top |-> 100, bottom |-> 100,
     header |-> 50, footer |-> 50, width |-> 850, height |-> 1100]

(* A section whose left margin is 0 (or not set), and a landscape section. *)
SectionNoLeft == [BaseSection EXCEPT !.left = 0]

SectionLandscape == [BaseSection EXCEPT !.width = 1100, !.height = 850]

SectionKinds == {BaseSection, SectionNoLeft, SectionLandscape}

BaseDoc ==
    [loaded |-> TRUE,
     props |-> [p \in PropNames |-> "x"],
     other_meta |-> {},
     write_protected |-> FALSE,
     restricted |-> FALSE,
     language |-> "en-US",
     styles |-> << [name |-> "Normal", type |-> "paragraph",
                    font |-> "Calibri"] >>,
     tables |-> <<>>,
     rels |-> <<>>,
     bookmarkStarts |-> <<>>,
     runs |-> <<>>,
     paragraphs |-> <<>>,
     paraStyles |-> <<>>,
     footerPageField |-> TRUE,
     hdrftr_defs |-> TRUE,
     sections |-> <<BaseSection>>,
     fault |-> NoRule]

BookmarkStartsOf(names) ==
    [i \in 1..Len(names) |-> [id |-> ToString(i), name |-> names[i]]]

PropDocs == {[BaseDoc EXCEPT !.props = f] : f \in [PropNames -> PropVals]}

ProtectionDocs ==
    {[BaseDoc EXCEPT !.write_protected = w, !.restricted = r,
                     !.footerPageField = g, !.language = l] :
        w \in BOOLEAN, r \in BOOLEAN, g \in BOOLEAN, l \in {"en-US", ""}}

TableDocs == {[BaseDoc EXCEPT !.tables = t] : t \in SeqsUpTo(TableKinds, MaxTables)}

LinkDocs == {[BaseDoc EXCEPT !.rels = l] : l \in SeqsUpTo(LinkKinds, MaxLinks)}

BookmarkDocs ==
    {[BaseDoc EXCEPT !.bookmarkStarts = BookmarkStartsOf(b), !.runs = r] :
        b \in SeqsUpTo(BookmarkNames, MaxBookmarks),
        r \in SeqsUpTo(RunKinds, MaxBookmarks)}

(* Runs that hold a w:bookmarkStart below the run element.                 *)
BookmarkRunKinds == {[anchors |-> <<>>, bookmark |-> n] : n \in AnchorNames}

RunBookmarkDocs ==
    {[BaseDoc EXCEPT !.runs = r] : r \in SeqsUpTo(BookmarkRunKinds, MaxRuns)}

HeaderDocs == {[BaseDoc EXCEPT !.tables = <<t>>] : t \in {TSame, TMarked}}

(* Paragraphs with a style: a table of contents entry, one that holds the  *)
(* text Word leaves for a field it could not resolve, and a body           *)
(* paragraph.  paraStyles names the style of a paragraph where it is not   *)
(* 'Normal'.                                                               *)
TocParas ==
    {[style |-> "TOC 1", text |-> "Contents"],
     [style |-> "TOC 1", text |-> "Error! Bookmark not defined."],
     [style |-> "Normal", text |-> "Intro"]}

StyledDoc(paras) ==
    [BaseDoc EXCEPT !.paragraphs = [i \in 1..Len(paras) |-> paras[i].text],
                    !.paraStyles = [i \in 1..Len(paras) |-> paras[i].style]]

(* Documents of ten and of eleven body paragraphs, without and with a      *)
(* table of contents entry at the end.                                     *)
LongDoc(n, last) ==
    StyledDoc([i \in 1..n |->
        IF i = n THEN last ELSE [style |-> "Normal", text |-> "Intro"]])

TocDocs ==
    {StyledDoc(x) : x \in SeqsUpTo(TocParas, MaxTocParas)}
        \cup {LongDoc(n, last) :
                 n \in {TocMinParagraphs, TocMinParagraphs + 1},
                 last \in {[style |-> "Normal", text |-> "Intro"],
                           [style |-> "TOC 1", text |-> "Contents"]}}

(* Styles of the styles part: 'Normal' with and without a font name, and  *)
(* styles of the three types outside the whitelist.                        *)
StNormal == [name |-> "Normal", type |-> "paragraph", font |-> "Calibri"]

StNormalNoFont == [name |-> "Normal", type |-> "paragraph", font |-> ""]

StyleKinds ==
    {[name |-> "Title", type |-> "paragraph", font |-> ""],
     [name |-> "Heading 4", type |-> "paragraph", font |-> ""],
     [name |-> "Emphasis", type |-> "character", font |-> ""],
     [name |-> "Light List", type |-> "table", font |-> ""]}

StyleDocs ==
    {[BaseDoc EXCEPT !.styles = <<n>> \o x] :
        n \in {StNormal, StNormalNoFont},
        x \in SeqsUpTo(StyleKinds, MaxStyles)}

(* A document whose section has no header and no footer definition: the   *)
(* headers and footers are linked to a previous section that does not      *)
(* exist.                                                                  *)
NoHdrFtrDoc == [BaseDoc EXCEPT !.hdrftr_defs = FALSE, !.footerPageField = FALSE]

SectionDocs ==
    {[BaseDoc EXCEPT !.sections = x] : x \in SeqsUpTo(SectionKinds, MaxSections)}

(* Body paragraphs in 'Normal', each of one run without formatting.        *)
ParagraphDocs ==
    {[BaseDoc EXCEPT !.paragraphs = t] : t \in SeqsUpTo(ParaTexts, MaxParagraphs)}

(* A document on which one rule meets a structure it does not expect and   *)
(* raises; stub rules have no statement that can raise.                    *)
FaultDocs ==
    {[d EXCEPT !.fault = r] :
        d \in {BaseDoc,
               [BaseDoc EXCEPT !.props = [p \in PropNames |-> ""],
                               !.tables = <<TBlank>>]},
        r \in RuleNames \ StubRules}

Docs ==
    PropDocs \cup ProtectionDocs \cup TableDocs \cup LinkDocs
        \cup BookmarkDocs \cup FaultDocs \cup ParagraphDocs
        \cup RunBookmarkDocs \cup SectionDocs \cup HeaderDocs \cup TocDocs
        \cup StyleDocs \cup {NoHdrFtrDoc}

(***************************************************************************)
(* Origins: the file_path given to process_document, with what             *)
(* os.path.splitext, the 'sharepoint.com' test, os.path.exists and         *)
(* docx.Document answer for it.                                            *)
(***************************************************************************)
LocalOrigin(name, ext, exists, corrupt) ==
    [name |-> name, ext |-> ext, sharepoint |-> FALSE, exists |-> exists,
     corrupt |-> corrupt, sourcedoc |-> "absent", lastPart |-> name,
     fragment |-> "absent"]

RemoteOrigin(name, ext, corrupt, sourcedoc, lastPart) ==
    [name |-> name, ext |-> ext, sharepoint |-> TRUE, exists |-> FALSE,
     corrupt |-> corrupt, sourcedoc |-> sourcedoc, lastPart |-> lastPart,
     fragment |-> "absent"]

GoodLocal == LocalOrigin("a.docx", ".docx", TRUE, FALSE)

GoodRemote ==
    RemoteOrigin("https://t.sharepoint.com/s/a.docx", ".docx", FALSE,
                 "absent", "a.docx")

FailingLocalOrigins ==
    {LocalOrigin("", "", FALSE, FALSE),
     LocalOrigin("report.pdf", ".pdf", TRUE, FALSE),
     LocalOrigin("notes.txt", ".txt", TRUE, FALSE),
     LocalOrigin("missing.docx", ".docx", FALSE, FALSE),
     LocalOrigin("old.doc", ".doc", FALSE, FALSE),
     LocalOrigin("broken.docx", ".docx", TRUE, TRUE)}

RemoteOrigins ==
    {GoodRemote,
     RemoteOrigin("https://t.sharepoint.com/s/b.docx", ".docx", TRUE,
                  "absent", "b.docx"),
     RemoteOrigin("https://t.sharepoint.com/s/a.pdf", ".pdf", FALSE,
                  "absent", "a.pdf"),
     RemoteOrigin("https://t.sharepoint.com/?sourcedoc=&f=a.docx", ".docx",
                  FALSE, "", ""),
     RemoteOrigin("https://t.sharepoint.com/D.aspx?sourcedoc=ID&f=a.docx",
                  ".docx", FALSE, "ID", "D.aspx")}

(* Sharing links of other shapes: the sourcedoc parameter percent-encoded  *)
(* and in braces, with and without a trailing parameter that ends in       *)
(* '.docx'; a link whose sharing token is in the fragment.  ext is what    *)
(* os.path.splitext(...)[1].lower() gives for the whole URL, lastPart what *)
(* url.split('/')[-1].split('?')[0] gives.                                 *)
SharingOrigins ==
    {RemoteOrigin("https://t.sharepoint.com/_layouts/15/Doc.aspx?sourcedoc=%7BID%7D&file=a.docx",
                  ".docx", FALSE, "%7BID%7D", "Doc.aspx"),
     RemoteOrigin("https://t.sharepoint.com/_layouts/15/Doc.aspx?sourcedoc=%7BID%7D",
                  ".aspx?sourcedoc=%7bid%7d", FALSE, "%7BID%7D", "Doc.aspx"),
     [RemoteOrigin("https://t.sharepoint.com/s/x#id=TK&f=a.docx", ".docx",
                   FALSE, "absent", "x#id=TK&f=a.docx")
         EXCEPT !.fragment = "TK"]}

(* The environment of the interpreter: os.getenv('ACCESS_TOKEN') and       *)
(* os.getenv('DRIVE_ID') set or not, and whether the installed library's   *)
(* element.xpath accepts the `namespaces` keyword that                     *)
(* check_unused_bookmarks passes (lxml's xpath does; python-docx overrides *)
(* xpath with a method of one parameter, and the call raises TypeError).   *)
Environments ==
    {[token |-> t, drive |-> d, xpath_namespaces |-> TRUE] :
        t \in BOOLEAN, d \in BOOLEAN}

DefaultEnv == [token |-> TRUE, drive |-> TRUE, xpath_namespaces |-> TRUE]

StrictXPathEnv == [DefaultEnv EXCEPT !.xpath_namespaces = FALSE]

RemoteDocs ==
    {BaseDoc,
     [BaseDoc EXCEPT !.tables = <<TBlank>>, !.rels = <<[target |-> ""]>>],
     [BaseDoc EXCEPT !.fault = "check_styles"]}

(* The caller enters through process_document(file_path), or constructs a  *)
(* DocumentValidator(file_path) and calls its run_all_checks().            *)
Entries == {"process_document", "run_all_checks"}

Scenario(e, o, d, v) == [entry |-> e, origin |-> o, document |-> d, env |-> v]

Scenarios ==
    {Scenario("process_document", GoodLocal, d, DefaultEnv) : d \in Docs}
    \cup {Scenario("process_document", GoodLocal, d, StrictXPathEnv) :
             d \in BookmarkDocs}
    \cup {Scenario(e, o, BaseDoc, DefaultEnv) :
             e \in Entries, o \in FailingLocalOrigins}
    \cup {Scenario(e, o, d, DefaultEnv) :
             e \in Entries, o \in RemoteOrigins, d \in RemoteDocs}
    \cup {Scenario(e, GoodRemote, BaseDoc, v) : e \in Entries, v \in Environments}
    \cup {Scenario(e, o, BaseDoc, DefaultEnv) :
             e \in Entries, o \in SharingOrigins}
    \cup {Scenario("run_all_checks", GoodLocal, d, DefaultEnv) :
             d \in TableDocs \cup LinkDocs \cup FaultDocs}

(***************************************************************************)
(* State.                                                                  *)
(***************************************************************************)
VARIABLES
    file_path,      \* the origin given to process_document
    document,       \* the document stored at the origin
    env,            \* credentials and library of the interpreter
    entry,          \* the function the caller calls
    hash_seed,      \* the string-hash seed of the interpreter of this call
    doc,            \* DocumentValidator.doc
    issues,         \* DocumentValidator.issues
    styles_used,    \* DocumentValidator.styles_used
    hyperlinks,     \* DocumentValidator.hyperlinks
    bookmarks,      \* DocumentValidator.bookmarks
    tables,         \* DocumentValidator.tables
    temp_file,      \* DocumentValidator.temp_file
    fs,             \* temporary files present on disk
    temp_count,     \* temporary files created so far (fresh names)
    created,        \* temporary files created by the current call
    requests,       \* network requests of the latest download, in order
    pc,             \* position in process_document
    next_rule,      \* index in RuleOrder of the rule run_all_checks runs next
    executed,       \* rules that ran to their end in the current call
    raised,         \* the rule that raised in the current call
    loads,          \* what load_document returned, per call of it
    returned,       \* what run_all_checks returned
    results,        \* the mapping process_document returns
    run,            \* number of the current process_document call
    prev_results,   \* the mapping the first call returned
    word_docs,      \* main: the documents to process, in order
    processed,      \* main: how many of them have been processed
    all_results,    \* main: the aggregated mapping
    report,         \* generate_report: the lines written to the report file
    exit_code,      \* main: its return value ("none" while it runs)
    task_status,    \* api.task_status: job id -> status, message, result
    background,     \* the background task of each job: queued or finished
    query,          \* get_summarization_status: the call in progress
    response        \* the last response of an endpoint

vars ==
    << file_path, document, env, entry, hash_seed, doc, issues, styles_used,
       hyperlinks, bookmarks, tables, temp_file, fs, temp_count, created,
       requests, pc, next_rule, executed, raised, loads, returned, results,
       run, prev_results, word_docs, processed, all_results, report,
       exit_code, task_status, background, query, response >>

api_vars == << task_status, background, query, response >>

main_vars == << word_docs, processed, all_results, report, exit_code >>

inputs == << file_path, document, env, entry >>

NotReturned == [called |-> FALSE, value |-> <<>>]

(* Two interpreters with different PYTHONHASHSEED.                         *)
HashSeeds == {"seed_a", "seed_b"}

(***************************************************************************)
(* download_sharepoint_file                                                *)
(***************************************************************************)
(* urllib.parse.unquote on the escapes that occur in the model's URLs.     *)
RECURSIVE Unquote(_)
Unquote(s) ==
    IF s = "" THEN ""
    ELSE IF Len(s) >= 3 /\ SubSeq(s, 1, 3) = "%7B"
    THEN "{" \o Unquote(SubSeq(s, 4, Len(s)))
    ELSE IF Len(s) >= 3 /\ SubSeq(s, 1, 3) = "%7D"
    THEN "}" \o Unquote(SubSeq(s, 4, Len(s)))
    ELSE SubSeq(s, 1, 1) \o Unquote(SubSeq(s, 2, Len(s)))

(* str.strip('{}')                                                         *)
RECURSIVE StripBraces(_)
StripBraces(s) ==
    IF s = "" THEN ""
    ELSE IF SubSeq(s, 1, 1) \in {"{", "}"}
    THEN StripBraces(SubSeq(s, 2, Len(s)))
    ELSE IF SubSeq(s, Len(s), Len(s)) \in {"{", "}"}
    THEN StripBraces(SubSeq(s, 1, Len(s) - 1))
    ELSE s

(* The file id taken from the URL: the sourcedoc parameter (unquoted,      *)
(* braces stripped) when 'sourcedoc=' occurs, else the last path segment.  *)
(* The fragment of the URL is not read.                                    *)
FileId(o) ==
    LET fromQuery == IF o.sourcedoc # "absent"
                     THEN StripBraces(Unquote(o.sourcedoc)) ELSE ""
    IN  IF fromQuery # "" THEN fromQuery ELSE o.lastPart

(* Outcomes of the requests of one download: meta is the first endpoint    *)
(* that answers with metadata (0: none does), dl the content request.      *)
NetOutcomes ==
    {[meta |-> m, dl |-> d] :
        m \in 0..NumEndpoints, d \in {"ok", "empty", "http_error", "error"}}

Endpoints(n) == [i \in 1..n |-> "metadata" \o ToString(i)]

(* A request made for the file id, with whether raise_for_status let the   *)
(* response pass.                                                          *)
Request(name, ok) == [name |-> name, ok |-> ok, file_id |-> FileId(file_path)]

(* The loop over the endpoints without its break.                          *)
MetadataLoopNoBreak(net) ==
    [i \in 1..NumEndpoints |->
        Request(Endpoints(NumEndpoints)[i], net.meta # 0 /\ i >= net.meta)]

(* The loop over the endpoints: one request each, in the order of the      *)
(* list, until one answers.                                                *)
MetadataLoop(net) ==
    [i \in 1..(IF net.meta = 0 THEN NumEndpoints ELSE net.meta) |->
        Request(Endpoints(NumEndpoints)[i], i = net.meta)]

DownloadFailed ==
    ValidationResult("Download Failed", "SharePoint",
        "Failed to download file from SharePoint. Please check the URL and your permissions.",
        "Error")

download_sharepoint_file(net) ==
    IF FileId(file_path) = ""
    THEN [content |-> FALSE, requests |-> <<>>,
          new_issues |-> << ValidationResult("Configuration Error",
                "Invalid SharePoint URL format",
                "Could not extract file ID from URL", "Error") >>]
    ELSE IF ~(env.token /\ env.drive)
    THEN [content |-> FALSE, requests |-> <<>>,
          new_issues |-> << ValidationResult("Configuration Error",
                "Missing Credentials",
                "Missing required environment variables (ACCESS_TOKEN and DRIVE_ID are required for SharePoint access)",
                "Error") >>]
    ELSE IF net.meta = 0
    THEN [content |-> FALSE, requests |-> MetadataLoop(net),
          new_issues |-> <<>>]
    ELSE LET reqs == Append(MetadataLoop(net),
                            Request("content", net.dl \in {"ok", "empty"}))
         IN  CASE net.dl = "ok" ->
                    [content |-> TRUE, requests |-> reqs, new_issues |-> <<>>]
               [] net.dl = "empty" ->
                    [content |-> FALSE, requests |-> reqs, new_issues |-> <<>>]
               [] OTHER ->
                    [content |-> FALSE, requests |-> reqs,
                     new_issues |-> <<DownloadFailed>>]

(***************************************************************************)
(* collect_document_data                                                   *)
(***************************************************************************)
(* No run of a modelled document holds a w:hyperlink with an r:id.         *)
find_hyperlink_text(d, rel) == "[Hyperlink text not found]"

table_has_header(table) ==
    IF table.rows = <<>> THEN FALSE
    ELSE \E c \in 1..Len(table.rows[1]) : Strip(table.rows[1][c]) # ""

CollectedHyperlinks(d) ==
    [i \in 1..Len(d.rels) |->
        [target |-> d.rels[i].target, text |-> find_hyperlink_text(d, d.rels[i])]]

CollectedTables(d) ==
    [i \in 1..Len(d.tables) |->
        [index |-> i, rows |-> Len(d.tables[i].rows), cols |-> d.tables[i].cols,
         has_header |-> table_has_header(d.tables[i]),
         style |-> d.tables[i].style]]

collect_document_data(d) ==
    [styles_used |-> {d.styles[i].name : i \in 1..Len(d.styles)},
     hyperlinks |-> hyperlinks \o CollectedHyperlinks(d),
     tables |-> tables \o CollectedTables(d)]

(***************************************************************************)
(* load_document: the values of the validator's fields, the disk and the   *)
(* return value after one call, for the outcome net of its requests.       *)
(* TryBody is the body of the try statement: exc names the exception that  *)
(* leaves it ("none": it reached `return True` or `return False`).         *)
(***************************************************************************)
LoadResult(ret, exc, new_issues, d, c, tf, disk, reqs, made, download) ==
    [ret |-> ret, exc |-> exc, issues |-> issues \o new_issues, doc |-> d,
     styles_used |-> c.styles_used, hyperlinks |-> c.hyperlinks,
     tables |-> c.tables, temp_file |-> tf, fs |-> disk, requests |-> reqs,
     made |-> made, download |-> download]

Uncollected ==
    [styles_used |-> styles_used, hyperlinks |-> hyperlinks, tables |-> tables]

TryBody(net) ==
    IF file_path.ext = ".pdf" \/ file_path.ext \notin {".docx", ".doc"}
    THEN LoadResult(FALSE, "ValueError", <<>>, doc, Uncollected, temp_file, fs,
                    requests, {}, "none")
    ELSE IF file_path.sharepoint
    THEN LET dl == download_sharepoint_file(net)
             tf == temp_count + 1
         IN  IF ~dl.content
             THEN LoadResult(FALSE, "none", dl.new_issues, doc, Uncollected,
                             temp_file, fs, dl.requests, {}, "no_content")
             ELSE IF file_path.corrupt
             THEN LoadResult(FALSE, "PackageNotFoundError", <<>>, doc,
                             Uncollected, tf, fs \cup {tf}, dl.requests, {tf},
                             "content")
             ELSE LoadResult(TRUE, "none", <<>>, document,
                             collect_document_data(document), tf, fs \cup {tf},
                             dl.requests, {tf}, "content")
    ELSE IF ~file_path.exists
    THEN LoadResult(FALSE, "FileNotFoundError", <<>>, doc, Uncollected,
                    temp_file, fs, requests, {}, "none")
    ELSE IF file_path.corrupt
    THEN LoadResult(FALSE, "PackageNotFoundError", <<>>, doc, Uncollected,
                    temp_file, fs, requests, {}, "none")
    ELSE LoadResult(TRUE, "none", <<>>, document,
                    collect_document_data(document), temp_file, fs, requests,
                    {}, "none")

(* load_document without its last clause, `except Exception`.              *)
ExceptClausesNoGeneric == <<"FileNotFoundError", "ValueError">>

(* load_document with `except Exception` written first.                    *)
ExceptClausesGenericFirst == <<"Exception", "FileNotFoundError", "ValueError">>

(* The except clauses of load_document, in their order.                    *)
ExceptClauses == <<"FileNotFoundError", "ValueError", "Exception">>

(* `except cls` catches exc: exc is cls or a subclass of it.               *)
IsInstance(exc, cls) == exc = cls \/ cls = "Exception"

HandlerIssue(cls) ==
    CASE cls = "FileNotFoundError" ->
            ValidationResult("File Not Found", "Document",
                "File not found: " \o file_path.name, "Error")
      [] cls = "ValueError" ->
            ValidationResult("Unsupported File Type", "Document",
                IF file_path.ext = ".pdf"
                THEN "PDF files are not supported. Please provide a Word document (.docx)"
                ELSE "Unsupported file type: " \o file_path.ext
                         \o ". Please provide a Word document (.docx)",
                "Error")
      [] cls = "Exception" ->
            ValidationResult("Document Load Error", "Document",
                "Failed to load document", "Error")

load_document(net) ==
    IF file_path.name = ""
    THEN LoadResult(FALSE, "none",
                    << ValidationResult("Configuration Error", "Document Path",
                          "No document path provided", "Error") >>,
                    doc, Uncollected, temp_file, fs, requests, {}, "none")
    ELSE LET b == TryBody(net)
             catching == {i \in 1..Len(ExceptClauses) :
                             IsInstance(b.exc, ExceptClauses[i])}
         IN  IF b.exc = "none" THEN b
             ELSE IF catching = {} THEN b
             ELSE LET first == CHOOSE i \in catching :
                                  \A j \in catching : i <= j
                  IN  [b EXCEPT !.exc = "none",
                                !.issues = Append(issues,
                                              HandlerIssue(ExceptClauses[first]))]

(* The request outcomes a call of load_document can meet: only a remote    *)
(* origin with a file id and credentials makes requests.                   *)
NetChoices ==
    IF /\ file_path.name # ""
       /\ file_path.ext \in {".docx", ".doc"}
       /\ file_path.sharepoint
       /\ FileId(file_path) # ""
       /\ env.token /\ env.drive
    THEN NetOutcomes
    ELSE {[meta |-> 0, dl |-> "ok"]}

(***************************************************************************)
(* cleanup                                                                 *)
(***************************************************************************)
cleanup(disk, tf) == IF tf # NoFile /\ tf \in disk THEN disk \ {tf} ELSE disk

(***************************************************************************)
(* The rules: the issues one rule appends to self.issues when it runs to   *)
(* its end on the loaded document d.                                       *)
(***************************************************************************)
RECURSIVE SeqOfSet(_, _)
(* The elements of S in the order of the sequence `order`.                 *)
SeqOfSet(S, order) ==
    IF order = <<>> THEN <<>>
    ELSE (IF Head(order) \in S THEN <<Head(order)>> ELSE <<>>)
            \o SeqOfSet(S, Tail(order))

(* Iteration order of a set of str: fixed by the interpreter's hash seed.  *)
SetOrder(S, seed) ==
    IF seed = "seed_a" THEN SeqOfSet(S, <<"B1", "B2", "_Toc1">>)
    ELSE SeqOfSet(S, <<"_Toc1", "B2", "B1">>)

DisplayName(p) ==
    CASE p = "title" -> "Document Title"
      [] p = "subject" -> "Document Subject"
      [] p = "author" -> "Author Name"
      [] p = "keywords" -> "Document Keywords"
      [] p = "category" -> "Document Category"

(* check_document_properties with 'category' left out of required_props.   *)
check_document_properties_four(d) ==
    Flatten([i \in 1..4 |->
        LET p == <<"title", "subject", "author", "keywords">>[i]
        IN  IF d.props[p] = ""
            THEN << ValidationResult("Missing Document Property",
                        "Document Properties",
                        "Missing required property: " \o DisplayName(p),
                        "Warning") >>
            ELSE <<>>])

check_document_properties(d) ==
    Flatten([i \in 1..5 |->
        LET p == <<"title", "subject", "author", "keywords", "category">>[i]
        IN  IF d.props[p] = ""
            THEN << ValidationResult("Missing Document Property",
                        "Document Properties",
                        "Missing required property: " \o DisplayName(p),
                        "Warning") >>
            ELSE <<>>])

check_document_protection(d) ==
    LET found ==
            (IF d.write_protected
             THEN << ValidationResult("Document Protection", "Document",
                        "Document is write-protected.", "Warning") >>
             ELSE <<>>)
            \o (IF d.restricted
                THEN << ValidationResult("Document Protection", "Document",
                           "Document has restricted editing enabled.",
                           "Warning") >>
                ELSE <<>>)
    IN  IF found = <<>>
        THEN << ValidationResult("Document Protection", "Document",
                    "No document protection detected.", "Info") >>
        ELSE found

check_metadata(d) ==
    Flatten([i \in 1..4 |->
        LET f == <<"author", "last_modified_by", "revision", "version">>[i]
            present == IF f = "author" THEN d.props["author"] # ""
                       ELSE f \in d.other_meta
        IN  IF present
            THEN << ValidationResult("Document Metadata", "Document Properties",
                        "Metadata field '" \o f \o "' found", "Info") >>
            ELSE <<>>])

StandardStyleNames ==
    {"Heading 1", "Heading 2", "Heading 3", "Normal", "Body Text",
     "List Paragraph", "Table Grid", "Table Normal"}

(* str.startswith('Heading') on the style names of the model.              *)
StartsWithHeading(n) == n \in {"Heading 1", "Heading 2", "Heading 3", "Heading 4"}

(* check_styles without the test of the style type.                        *)
check_styles_any_type(d) ==
    Flatten([i \in 1..Len(d.styles) |->
        LET st == d.styles[i]
        IN  (IF st.name = "Normal" /\ st.font = ""
             THEN << ValidationResult("Corrupt Style", "Style: " \o st.name,
                        "Normal style is corrupted", "Error") >>
             ELSE <<>>)
            \o (IF /\ st.name \notin StandardStyleNames
                   /\ ~StartsWithHeading(st.name)
                THEN << ValidationResult("Non-Standard Style",
                           "Style: " \o st.name, "Non-standard style used",
                           "Warning") >>
                ELSE <<>>)])

check_styles(d) ==
    Flatten([i \in 1..Len(d.styles) |->
        LET st == d.styles[i]
        IN  (IF st.name = "Normal" /\ st.font = ""
             THEN << ValidationResult("Corrupt Style", "Style: " \o st.name,
                        "Normal style is corrupted", "Error") >>
             ELSE <<>>)
            \o (IF /\ st.name \notin StandardStyleNames
                   /\ ~StartsWithHeading(st.name)
                   /\ st.type = "paragraph"
                THEN << ValidationResult("Non-Standard Style",
                           "Style: " \o st.name, "Non-standard style used",
                           "Warning") >>
                ELSE <<>>)])

check_hyperlinks(d) ==
    Flatten([i \in 1..Len(hyperlinks) |->
        IF hyperlinks[i].target = ""
        THEN << ValidationResult("Broken Hyperlink",
                    "Link text: " \o hyperlinks[i].text,
                    "Hyperlink has no target URL", "Error") >>
        ELSE <<>>])

(* check_bookmarks adds to self.bookmarks the first bookmark name of each  *)
(* run that holds a bookmarkStart; self.bookmarks is a set, so its length  *)
(* equals that of set(self.bookmarks) and no issue is appended.            *)
check_bookmarks_names(d) ==
    bookmarks \cup {d.runs[i].bookmark : i \in {j \in 1..Len(d.runs) : d.runs[j].bookmark # ""}}

(* para.style.name of the i-th paragraph.                                  *)
ParaStyle(d, i) ==
    IF i \in DOMAIN d.paraStyles THEN d.paraStyles[i] ELSE "Normal"

(* str.startswith('TOC')                                                   *)
StartsWithTOC(name) == Len(name) >= 3 /\ SubSeq(name, 1, 3) = "TOC"

(* Only the first paragraph in a TOC style is examined: the loop breaks    *)
(* after it.                                                               *)
check_table_of_contents(d) ==
    LET tocs == {i \in 1..Len(d.paragraphs) : StartsWithTOC(ParaStyle(d, i))}
        has_toc == tocs # {}
        first == CHOOSE i \in tocs : \A j \in tocs : i <= j
    IN  (IF has_toc /\ (Contains(d.paragraphs[first], "!")
                           \/ Contains(d.paragraphs[first], "Error!"))
         THEN << ValidationResult("Table of Contents Error", "Document",
                    "Table of Contents contains errors. Please update the TOC (right-click and select 'Update Field').",
                    "Error") >>
         ELSE <<>>)
        \o (IF ~has_toc /\ Len(d.paragraphs) > TocMinParagraphs
            THEN << ValidationResult("Missing Table of Contents", "Document",
                       "Consider adding a Table of Contents for better navigation.",
                       "Info") >>
            ELSE <<>>)

(* The duplicate test of check_bookmarks: len(self.bookmarks) against      *)
(* len(set(self.bookmarks)), both the number of distinct names.            *)
check_bookmarks(d) ==
    LET names == check_bookmarks_names(d)
    IN  IF Cardinality(names) # Cardinality({n : n \in names})
        THEN << ValidationResult("Duplicate Bookmarks", "Document",
                    "Duplicate bookmarks found: ", "Error") >>
        ELSE <<>>

check_tables(d) ==
    Flatten([i \in 1..Len(tables) |->
        IF ~tables[i].has_header
        THEN << ValidationResult("Table Missing Headers",
                    "Table " \o ToString(tables[i].index),
                    "Table should have a header row", "Warning") >>
        ELSE <<>>])

(* check_table_formatting with `<=` in the font size test.                 *)
check_table_formatting_le(d) ==
    Flatten([i \in 1..Len(tables) |->
        LET t == tables[i]
            fonts == d.tables[t.index].fonts
        IN  (IF t.cols > WideTableCols
             THEN << ValidationResult("Wide Table", "Table " \o ToString(t.index),
                        "Table has " \o ToString(t.cols)
                            \o " columns which may be too wide for standard page",
                        "Warning") >>
             ELSE <<>>)
            \o Flatten([k \in 1..Len(fonts) |->
                    IF fonts[k] # 0 /\ fonts[k] <= SmallFontPt
                    THEN << ValidationResult("Small Font in Table",
                                "Table " \o ToString(t.index),
                                "Font size too small: " \o ToString(fonts[k]) \o "pt",
                                "Warning") >>
                    ELSE <<>>])])

check_table_formatting(d) ==
    Flatten([i \in 1..Len(tables) |->
        LET t == tables[i]
            fonts == d.tables[t.index].fonts
        IN  (IF t.cols > WideTableCols
             THEN << ValidationResult("Wide Table", "Table " \o ToString(t.index),
                        "Table has " \o ToString(t.cols)
                            \o " columns which may be too wide for standard page",
                        "Warning") >>
             ELSE <<>>)
            \o Flatten([k \in 1..Len(fonts) |->
                    IF fonts[k] # 0 /\ fonts[k] < SmallFontPt
                    THEN << ValidationResult("Small Font in Table",
                                "Table " \o ToString(t.index),
                                "Font size too small: " \o ToString(fonts[k]) \o "pt",
                                "Warning") >>
                    ELSE <<>>])])

check_page_numbers(d) ==
    IF Len(d.sections) = 0 \/ d.footerPageField THEN <<>>
    ELSE << ValidationResult("Page Numbers Missing", "Document Footer",
                "Document does not appear to have page numbers in any footer",
                "Warning") >>

TableIssuesHasHeader(t) ==
    IF t.rows = <<>> THEN FALSE
    ELSE \/ t.hdr
         \/ /\ Len(t.rows) > 1
            /\ \E c \in 1..Len(t.rows[1]) : Strip(t.rows[1][c]) # ""
            /\ [c \in 1..Len(t.rows[1]) |-> Strip(t.rows[1][c])]
                   # [c \in 1..Len(t.rows[2]) |-> Strip(t.rows[2][c])]

TableIssuesOf(t, i) ==
    (IF ~TableIssuesHasHeader(t)
     THEN << ValidationResult("Table Header", "Table " \o ToString(i),
                "Table does not have a clearly defined header row.",
                "Warning") >>
     ELSE <<>>)
    \o [k \in 1..Len(t.gridSpans) |->
            ValidationResult("Merged Cells",
                "Table " \o ToString(i) \o ", Cell ("
                    \o ToString(t.gridSpans[k][1]) \o ","
                    \o ToString(t.gridSpans[k][2]) \o ")",
                "Merged cells can cause accessibility issues.", "Warning")]
    \o [k \in 1..t.vMerge |->
            ValidationResult("Split Cells", "Table " \o ToString(i),
                "Vertically merged cells can cause accessibility issues.",
                "Warning")]
    \o (IF t.style \notin VALID_TABLE_STYLES
        THEN << ValidationResult("Table Style", "Table " \o ToString(i),
                   "Table uses non-standard style: " \o t.style, "Info") >>
        ELSE <<>>)

TableProcessingError(i) ==
    ValidationResult("Table Processing Error", "Table " \o ToString(i),
        "Error while processing table", "Error")

(* failing: the processing of the first table raises inside the per-table  *)
(* try, which appends the error issue and goes on with the next table.     *)
check_table_issues(d, failing) ==
    Flatten([i \in 1..Len(d.tables) |->
        IF failing /\ i = 1 THEN <<TableProcessingError(i)>>
        ELSE TableIssuesOf(d.tables[i], i)])

(* font.color is always an object and its rgb is None when no colour is    *)
(* set, which differs from RGBColor(0, 0, 0).                              *)
check_non_black_text(d) ==
    [i \in 1..Len(d.paragraphs) |->
        ValidationResult("Non-Black Text",
            "Text: " \o Excerpt(d.paragraphs[i], ExcerptLen) \o "...",
            "Text color is None", "Warning")]
    \o [i \in 1..Len(d.runs) |->
        ValidationResult("Non-Black Text", "Text: ...", "Text color is None",
            "Warning")]

RECURSIVE DictPut(_, _, _)
(* dict[k] = v on a dict kept as the sequence of its items.                *)
DictPut(items, k, v) ==
    IF items = <<>> THEN << <<k, v>> >>
    ELSE IF Head(items)[1] = k THEN << <<k, v>> >> \o Tail(items)
    ELSE <<Head(items)>> \o DictPut(Tail(items), k, v)

RECURSIVE AllBookmarks(_)
AllBookmarks(starts) ==
    IF starts = <<>> THEN <<>>
    ELSE LET last == starts[Len(starts)]
             rest == AllBookmarks(SubSeq(starts, 1, Len(starts) - 1))
         IN  IF last.id # "" /\ last.name # ""
             THEN DictPut(rest, last.id, last.name)
             ELSE rest

UsedBookmarks(d) ==
    UNION {Range(d.runs[i].anchors) \ {""} : i \in 1..Len(d.runs)}

check_whitespace_issues(d) ==
    Flatten([i \in 1..Len(d.paragraphs) |->
        LET text == d.paragraphs[i]
            location == "Paragraph: " \o Excerpt(text, ExcerptLen) \o "..."
        IN  (IF text # Strip(text)
             THEN << ValidationResult("Extra Whitespace", location,
                        "Leading or trailing whitespace found", "Warning") >>
             ELSE <<>>)
            \o (IF Contains(text, "  ")
                THEN << ValidationResult("Multiple Spaces", location,
                           "Multiple consecutive spaces found", "Warning") >>
                ELSE <<>>)])

(* dict.get(k, 0) on a dict kept as the sequence of its items.             *)
DictCount(items, k) ==
    IF \E i \in 1..Len(items) : items[i][1] = k
    THEN items[CHOOSE i \in 1..Len(items) : items[i][1] = k][2]
    ELSE 0

RECURSIVE ContentMapInclusive(_)
(* content_map when the length test is `>=` in place of `>`.               *)
ContentMapInclusive(paras) ==
    IF paras = <<>> THEN <<>>
    ELSE LET rest == ContentMapInclusive(SubSeq(paras, 1, Len(paras) - 1))
             text == Strip(paras[Len(paras)])
         IN  IF Len(text) >= DupMinLen
             THEN DictPut(rest, text, DictCount(rest, text) + 1)
             ELSE rest

RECURSIVE ContentMap(_)
(* content_map after the loop over the paragraphs: stripped text -> count, *)
(* in the order of first occurrence.                                       *)
ContentMap(paras) ==
    IF paras = <<>> THEN <<>>
    ELSE LET rest == ContentMap(SubSeq(paras, 1, Len(paras) - 1))
             text == Strip(paras[Len(paras)])
         IN  IF Len(text) > DupMinLen
             THEN DictPut(rest, text, DictCount(rest, text) + 1)
             ELSE rest

check_duplicate_content(d) ==
    LET content_map == ContentMap(d.paragraphs)
    IN  Flatten([i \in 1..Len(content_map) |->
            LET text == content_map[i][1]
                count == content_map[i][2]
            IN  IF count > 1
                THEN << ValidationResult("Duplicate Content",
                            "Repeated paragraph: " \o Excerpt(text, ExcerptLen) \o "...",
                            "This paragraph appears " \o ToString(count)
                                \o " times in the document.",
                            "Warning") >>
                ELSE <<>>])

(* kw: the xpath calls accept the namespaces keyword; when they raise, the *)
(* except clauses around them leave all_bookmarks and used_bookmarks empty.*)
check_unused_bookmarks(d, seed, kw) ==
    LET all_bookmarks == IF kw THEN AllBookmarks(d.bookmarkStarts) ELSE <<>>
        used_bookmarks == IF kw THEN UsedBookmarks(d) ELSE {}
        used_order == SetOrder(used_bookmarks, seed)
        defined == {all_bookmarks[i][2] : i \in 1..Len(all_bookmarks)}
    IN  Flatten([i \in 1..Len(all_bookmarks) |->
            LET bm_name == all_bookmarks[i][2]
            IN  IF bm_name \notin used_bookmarks /\ ~StartsWithUnderscore(bm_name)
                THEN << ValidationResult("Unused Bookmark",
                            "Bookmark: " \o bm_name,
                            "This bookmark is defined but not referenced by any hyperlink.",
                            "Info") >>
                ELSE <<>>])
        \o Flatten([i \in 1..Len(used_order) |->
            LET bm_name == used_order[i]
            IN  IF bm_name \notin defined /\ ~StartsWithUnderscore(bm_name)
                THEN << ValidationResult("Broken Bookmark Reference",
                            "Reference: " \o bm_name,
                            "This hyperlink references a bookmark that doesn't exist in the document.",
                            "Warning") >>
                ELSE <<>>])

check_empty_key_properties(d) ==
    Flatten([i \in 1..5 |->
        LET p == <<"title", "subject", "keywords", "category", "author">>[i]
        IN  IF d.props[p] = "" \/ Strip(d.props[p]) = ""
            THEN << ValidationResult("Empty Key Property", "Document Properties",
                        "Document property '" \o p \o "' is empty", "Warning") >>
            ELSE <<>>])

(* 'en' in lang.lower() on the language values of the model.               *)
ContainsEn(l) == l \in {"en-US", "en-GB"}

check_language_issues(d) ==
    IF d.language = "" \/ ~ContainsEn(d.language)
    THEN << ValidationResult("Language Setting", "Document Properties",
                "Document language is set to '" \o d.language
                    \o "'. Ensure correct language settings for spell checking.",
                "Warning") >>
    ELSE <<>>

(* f"{x:.2f}" of a length given in hundredths of an inch.                  *)
Inches(h) ==
    ToString(h \div 100) \o "." \o ToString((h % 100) \div 10)
        \o ToString(h % 10)

SectionLayout(sec, i) ==
    Flatten([k \in 1..6 |->
        LET name == <<"left", "right", "top", "bottom", "header", "footer">>[k]
            title == <<"Left", "Right", "Top", "Bottom", "Header", "Footer">>[k]
        IN  IF sec[name] # 0
            THEN << ValidationResult("Page Layout",
                        "Section " \o ToString(i) \o " " \o title,
                        title \o ": " \o Inches(sec[name]) \o " inches",
                        "Info") >>
            ELSE <<>>])
    \o << ValidationResult("Page Layout",
              "Section " \o ToString(i) \o " Page Size",
              "Page size: " \o Inches(sec.width) \o " x " \o Inches(sec.height)
                  \o " inches ("
                  \o (IF sec.width > sec.height THEN "Landscape" ELSE "Portrait")
                  \o ")",
              "Info") >>

check_page_layout_advanced(d) ==
    Flatten([i \in 1..Len(d.sections) |-> SectionLayout(d.sections[i], i)])

ExpectedFont(n) == IF n = "Heading 1" THEN "Calibri Light" ELSE "Calibri"

(* The styles of the model set no font size and no paragraph spacing.      *)
check_standard_styles(d) ==
    Flatten([k \in 1..4 |->
        LET n == <<"Normal", "Heading 1", "Heading 2", "Heading 3">>[k]
            hit == {i \in 1..Len(d.styles) : d.styles[i].name = n}
        IN  IF hit # {} /\ d.styles[CHOOSE i \in hit : TRUE].font # ExpectedFont(n)
            THEN << ValidationResult("Modified Standard Style", "Style: " \o n,
                        "Font should be '" \o ExpectedFont(n) \o "'", "Warning") >>
            ELSE <<>>])

RuleIssues(r, d, seed, kw) ==
    CASE r = "check_document_properties" -> check_document_properties(d)
      [] r = "check_document_protection" -> check_document_protection(d)
      [] r = "check_metadata" -> check_metadata(d)
      [] r = "check_styles" -> check_styles(d)
      [] r = "check_hyperlinks" -> check_hyperlinks(d)
      [] r = "check_bookmarks" -> check_bookmarks(d)
      [] r = "check_table_of_contents" -> check_table_of_contents(d)
      [] r = "check_tables" -> check_tables(d)
      [] r = "check_table_formatting" -> check_table_formatting(d)
      [] r = "check_page_numbers" -> check_page_numbers(d)
      [] r = "check_table_issues" -> check_table_issues(d, FALSE)
      [] r = "check_non_black_text" -> check_non_black_text(d)
      [] r = "check_whitespace_issues" -> check_whitespace_issues(d)
      [] r = "check_duplicate_content" -> check_duplicate_content(d)
      [] r = "check_unused_bookmarks" -> check_unused_bookmarks(d, seed, kw)
      [] r = "check_empty_key_properties" -> check_empty_key_properties(d)
      [] r = "check_language_issues" -> check_language_issues(d)
      [] r = "check_page_layout_advanced" -> check_page_layout_advanced(d)
      [] r = "check_standard_styles" -> check_standard_styles(d)
      [] OTHER -> <<>>

(***************************************************************************)
(* A rule's way of failing on a document whose structure it does not       *)
(* expect: inside its own try/except (the except appends an issue and the  *)
(* rule returns), or with nothing around it (the exception leaves the      *)
(* rule and run_all_checks, which has no try around its calls).            *)
(***************************************************************************)
RuleFails(r, d) ==
    /\ d.fault = r
    /\ r \notin StubRules
    /\ r = "check_table_issues" => d.tables # <<>>

RuleCatches(r) == r \in GuardedRules \/ r = "check_table_issues"

RuleOutcome(r, d, seed, kw) ==
    IF RuleFails(r, d)
    THEN IF r = "check_table_issues" THEN check_table_issues(d, TRUE)
         ELSE <<GuardIssue(r)>>
    ELSE RuleIssues(r, d, seed, kw)

(***************************************************************************)
(* process_document                                                        *)
(***************************************************************************)
Record(issue, location, details) ==
    [file |-> file_path.name, issue |-> issue, location |-> location,
     details |-> details]

(* results[severity] on a defaultdict(list), without creating the key.     *)
Get(res, severity) == IF severity \in DOMAIN res THEN res[severity] ELSE <<>>

(* results[severity].insert(0, record) in place of append.                 *)
PrependTo(res, severity, record) ==
    IF severity \in DOMAIN res
    THEN [res EXCEPT ![severity] = <<record>> \o @]
    ELSE (severity :> <<record>>) @@ res

(* results[severity].append(record) on a defaultdict(list).                *)
AppendTo(res, severity, record) ==
    IF severity \in DOMAIN res
    THEN [res EXCEPT ![severity] = Append(@, record)]
    ELSE (severity :> <<record>>) @@ res

RECURSIVE ProcessIssues(_, _)
ProcessIssues(res, list) ==
    IF list = <<>> THEN res
    ELSE ProcessIssues(
            AppendTo(res, Head(list).severity,
                     Record(Head(list).issue, Head(list).location,
                            Head(list).details)),
            Tail(list))

FailedToLoad ==
    Record("Failed to load document", "",
        "The document could not be loaded. It may be corrupted or in an unsupported format.")

ValidationError ==
    Record("Validation Error", "", "An error occurred during validation")

NoIssuesFound ==
    Record("No Issues Found", "",
        "No validation issues were found in the document.")

(* The seed matters only to the iteration of a set of two or more names.   *)
SeedChoices(d) ==
    IF Cardinality(UsedBookmarks(d)) >= 2 THEN HashSeeds ELSE {"seed_a"}

UnexpectedError ==
    Record("Unexpected Error", "", "An unexpected error occurred")

Init ==
    /\ \E s \in Scenarios :
          /\ file_path = s.origin
          /\ document = s.document
          /\ env = s.env
          /\ entry = s.entry
          /\ hash_seed \in SeedChoices(s.document)
    /\ doc = NoDoc
    /\ issues = <<>>
    /\ styles_used = {}
    /\ hyperlinks = <<>>
    /\ bookmarks = {}
    /\ tables = <<>>
    /\ temp_file = NoFile
    /\ fs = {}
    /\ temp_count = 0
    /\ created = {}
    /\ requests = <<>>
    /\ pc = "start"
    /\ next_rule = 1
    /\ executed = {}
    /\ raised = NoRule
    /\ loads = <<>>
    /\ returned = NotReturned
    /\ results = <<>>
    /\ run = 1
    /\ prev_results = <<>>
    /\ word_docs = <<>>
    /\ processed = 0
    /\ all_results = <<>>
    /\ report = <<>>
    /\ exit_code = "none"
    /\ task_status = <<>>
    /\ background = <<>>
    /\ query = [at |-> "idle"]
    /\ response = [code |-> 0]

(* The validator's fields after a call of load_document with result l.     *)
Loaded(l) ==
    /\ doc' = l.doc
    /\ issues' = l.issues
    /\ styles_used' = l.styles_used
    /\ hyperlinks' = l.hyperlinks
    /\ tables' = l.tables
    /\ temp_file' = l.temp_file
    /\ temp_count' = temp_count + Cardinality(l.made)
    /\ created' = created \cup l.made
    /\ requests' = l.requests
    /\ loads' = Append(loads, [ret |-> l.ret, raised |-> l.exc # "none",
                               download |-> l.download])

(* process_document up to its own call of load_document; when the load     *)
(* fails, the 'Failed to load document' record, the finally clause and the *)
(* return. An exception out of load_document would reach the outer         *)
(* `except Exception`.                                                     *)
ProcessDocumentLoad ==
    /\ entry = "process_document"
    /\ pc = "start"
    /\ \E net \in NetChoices :
          LET l == load_document(net)
          IN  /\ Loaded(l)
              /\ IF l.exc # "none"
                 THEN /\ pc' = "done"
                      /\ fs' = cleanup(l.fs, l.temp_file)
                      /\ results' = AppendTo(results, "Error", UnexpectedError)
                 ELSE IF l.ret
                 THEN /\ pc' = "checks"
                      /\ fs' = l.fs
                      /\ results' = results
                 ELSE /\ pc' = "done"
                      /\ fs' = cleanup(l.fs, l.temp_file)
                      /\ results' = AppendTo(results, "Error", FailedToLoad)
    /\ UNCHANGED main_vars
    /\ UNCHANGED api_vars
    /\ UNCHANGED << inputs, hash_seed, bookmarks, next_rule, executed, raised,
                    returned, run, prev_results >>

(* run_all_checks: its first statement, `if not self.load_document():      *)
(* return self.issues or []`. Called by process_document after its own     *)
(* load succeeded, or by the caller on a new validator. An exception out   *)
(* of load_document would leave run_all_checks.                            *)
RunAllChecksLoad ==
    /\ \/ pc = "checks"
       \/ entry = "run_all_checks" /\ pc = "start"
    /\ \E net \in NetChoices :
          LET l == load_document(net)
          IN  /\ Loaded(l)
              /\ IF l.exc # "none"
                 THEN /\ pc' = "done"
                      /\ returned' = returned
                      /\ fs' = IF entry = "process_document"
                               THEN cleanup(l.fs, l.temp_file) ELSE l.fs
                      /\ results' = IF entry = "process_document"
                                    THEN AppendTo(results, "Error", ValidationError)
                                    ELSE results
                 ELSE /\ fs' = l.fs
                      /\ results' = results
                      /\ IF l.ret
                         THEN /\ pc' = "rules"
                              /\ returned' = returned
                         ELSE /\ pc' = "return"
                              /\ returned' = [called |-> TRUE, value |-> l.issues]
    /\ next_rule' = 1
    /\ UNCHANGED main_vars
    /\ UNCHANGED api_vars
    /\ UNCHANGED << inputs, hash_seed, bookmarks, executed, raised, run,
                    prev_results >>

(* Rules that read header.paragraphs or footer.paragraphs of the sections.  *)
HeaderFooterReaders ==
    {"check_headers_footers", "check_page_numbers", "check_watermarks"}

(* The Document after rule r has run.  The rules assign to nothing of the   *)
(* document; reading the content of a header or footer that has no          *)
(* definition goes through the library's get-or-add accessor, which may    *)
(* add an empty definition to the document: both outcomes are kept.        *)
AfterRule(r, d) ==
    IF r \in HeaderFooterReaders /\ d.sections # <<>> /\ ~d.hdrftr_defs
    THEN {d, [d EXCEPT !.hdrftr_defs = TRUE]}
    ELSE {d}

(* run_all_checks: the next rule of the sequence runs to its end; after    *)
(* the last one, `return self.issues or []`.                               *)
RunRule ==
    /\ pc = "rules"
    /\ next_rule <= NumRules
    /\ LET r == RuleOrder[next_rule]
       IN  /\ RuleFails(r, doc) => RuleCatches(r)
           /\ issues' = issues \o RuleOutcome(r, doc, hash_seed,
                                              env.xpath_namespaces)
           /\ bookmarks' = IF r = "check_bookmarks"
                           THEN check_bookmarks_names(doc) ELSE bookmarks
           /\ executed' = executed \cup {r}
           /\ raised' = IF RuleFails(r, doc) THEN r ELSE raised
           /\ doc' \in AfterRule(r, doc)
    /\ next_rule' = next_rule + 1
    /\ IF next_rule = NumRules
       THEN /\ pc' = "return"
            /\ returned' = [called |-> TRUE, value |-> issues']
       ELSE UNCHANGED << pc, returned >>
    /\ UNCHANGED main_vars
    /\ UNCHANGED api_vars
    /\ UNCHANGED << inputs, hash_seed, styles_used, hyperlinks, tables,
                    temp_file, fs, temp_count, created, requests, loads,
                    results, run, prev_results >>

(* The next rule raises with no try around it: the exception leaves        *)
(* run_all_checks. Under process_document it reaches the inner             *)
(* `except Exception`, which records 'Validation Error'; then the finally  *)
(* clause and the return.                                                  *)
RuleRaises ==
    /\ pc = "rules"
    /\ next_rule <= NumRules
    /\ LET r == RuleOrder[next_rule]
       IN  /\ RuleFails(r, doc)
           /\ ~RuleCatches(r)
           /\ raised' = r
    /\ IF entry = "process_document"
       THEN /\ results' = AppendTo(results, "Error", ValidationError)
            /\ fs' = cleanup(fs, temp_file)
       ELSE UNCHANGED << results, fs >>
    /\ pc' = "done"
    /\ UNCHANGED main_vars
    /\ UNCHANGED api_vars
    /\ UNCHANGED << inputs, hash_seed, doc, issues, styles_used, hyperlinks,
                    bookmarks, tables, temp_file, temp_count, created,
                    requests, next_rule, executed, loads, returned, run,
                    prev_results >>

(* process_document without the branch of the empty issue list.            *)
ProcessReturnedSilent ==
    /\ entry = "process_document"
    /\ pc = "return"
    /\ results' = ProcessIssues(results, returned.value)
    /\ fs' = cleanup(fs, temp_file)
    /\ pc' = "done"
    /\ UNCHANGED main_vars
    /\ UNCHANGED api_vars
    /\ UNCHANGED << inputs, hash_seed, doc, issues, styles_used, hyperlinks,
                    bookmarks, tables, temp_file, temp_count, created,
                    requests, next_rule, executed, raised, loads, returned,
                    run, prev_results >>

(* process_document after run_all_checks returned: the issues become       *)
(* records under their severity, an empty list becomes 'No Issues Found';  *)
(* then the finally clause and the return.                                 *)
ProcessReturned ==
    /\ entry = "process_document"
    /\ pc = "return"
    /\ results' = IF returned.value = <<>>
                  THEN AppendTo(results, "Info", NoIssuesFound)
                  ELSE ProcessIssues(results, returned.value)
    /\ fs' = cleanup(fs, temp_file)
    /\ pc' = "done"
    /\ UNCHANGED main_vars
    /\ UNCHANGED api_vars
    /\ UNCHANGED << inputs, hash_seed, doc, issues, styles_used, hyperlinks,
                    bookmarks, tables, temp_file, temp_count, created,
                    requests, next_rule, executed, raised, loads, returned,
                    run, prev_results >>

(* run_all_checks returned to a caller that called it on its validator.    *)
RunAllChecksReturned ==
    /\ entry = "run_all_checks"
    /\ pc = "return"
    /\ pc' = "done"
    /\ UNCHANGED main_vars
    /\ UNCHANGED api_vars
    /\ UNCHANGED << inputs, hash_seed, doc, issues, styles_used, hyperlinks,
                    bookmarks, tables, temp_file, fs, temp_count, created,
                    requests, next_rule, executed, raised, loads, returned,
                    results, run, prev_results >>

(* The next process_document call on the same origin: a new                *)
(* DocumentValidator, in the same interpreter or in another one.           *)
NextCall ==
    /\ entry = "process_document"
    /\ pc = "done"
    /\ run < MaxRuns
    /\ run' = run + 1
    /\ prev_results' = IF run = 1 THEN results ELSE prev_results
    /\ hash_seed' \in SeedChoices(document)
    /\ doc' = NoDoc
    /\ issues' = <<>>
    /\ styles_used' = {}
    /\ hyperlinks' = <<>>
    /\ bookmarks' = {}
    /\ tables' = <<>>
    /\ temp_file' = NoFile
    /\ created' = {}
    /\ requests' = <<>>
    /\ pc' = "start"
    /\ next_rule' = 1
    /\ executed' = {}
    /\ raised' = NoRule
    /\ loads' = <<>>
    /\ returned' = NotReturned
    /\ results' = <<>>
    /\ UNCHANGED main_vars
    /\ UNCHANGED api_vars
    /\ UNCHANGED << inputs, fs, temp_count >>

Next ==
    \/ ProcessDocumentLoad
    \/ RunAllChecksLoad
    \/ RunRule
    \/ RuleRaises
    \/ ProcessReturned
    \/ RunAllChecksReturned
    \/ NextCall

Spec == Init /\ [][Next]_vars

(***************************************************************************)
(* generate_report: the lines of the report, each with the kind of line it *)
(* is and its text (pictographs left out of the text).                     *)
(***************************************************************************)
Line(kind, text) == [kind |-> kind, text |-> text]

(* The severities taken from the least to the most severe.                 *)
ReportSeveritiesReversed == <<"Info", "Warning", "Error">>

ReportSeverities == <<"Error", "Warning", "Info">>

(* severity.upper()                                                        *)
Upper(severity) ==
    CASE severity = "Error" -> "ERROR"
      [] severity = "Warning" -> "WARNING"
      [] severity = "Info" -> "INFO"

RECURSIVE FileOrder(_)
(* The keys of `files`, a defaultdict filled in the order of the issues.   *)
FileOrder(list) ==
    IF list = <<>> THEN <<>>
    ELSE LET rest == FileOrder(SubSeq(list, 1, Len(list) - 1))
             f == list[Len(list)].file
         IN  IF f \in Range(rest) THEN rest ELSE Append(rest, f)

EntryLines(list) ==
    Flatten([i \in 1..Len(list) |->
        << Line("entry", "\n" \o ToString(i) \o ". " \o list[i].issue) >>
        \o (IF list[i].location # ""
            THEN << Line("location", "   Location: " \o list[i].location) >>
            ELSE <<>>)
        \o (IF list[i].details # ""
            THEN << Line("details", "   Details: " \o list[i].details) >>
            ELSE <<>>)])

SeverityDetail(validation_results, severity) ==
    IF severity \in DOMAIN validation_results
       /\ validation_results[severity] # <<>>
    THEN LET list == validation_results[severity]
             files == FileOrder(list)
         IN  << Line("section",
                    "\n==================== " \o Upper(severity) \o "S ("
                        \o ToString(Len(list)) \o ") ====================") >>
             \o Flatten([k \in 1..Len(files) |->
                    << Line("file", "\nFile: " \o files[k]),
                       Line("rule", "--------------------------------------------------") >>
                    \o EntryLines(SelectSeq(list, LAMBDA r : r.file = files[k]))])
    ELSE <<>>

RECURSIVE SumLen(_, _)
SumLen(validation_results, keys) ==
    IF keys = {} THEN 0
    ELSE LET k == CHOOSE k \in keys : TRUE
         IN  Len(validation_results[k]) + SumLen(validation_results, keys \ {k})

(* total_issues is computed and not written to the report.                 *)
generate_report(validation_results) ==
    LET total_files ==
            Cardinality(UNION {{validation_results[s][i].file :
                                   i \in 1..Len(validation_results[s])} :
                               s \in DOMAIN validation_results})
        total_issues == SumLen(validation_results, DOMAIN validation_results)
    IN  << Line("rule", "=================================================="),
           Line("title", "DOCUMENT VALIDATION REPORT"),
           Line("rule", "=================================================="),
           Line("summary", "\nSummary:"),
           Line("total_files",
                "- Total files processed: " \o ToString(total_files)) >>
        \o Flatten([k \in 1..Len(ReportSeverities) |->
               LET severity == ReportSeverities[k]
               IN  IF severity \in DOMAIN validation_results
                   THEN << Line("severity_count",
                              "- " \o severity \o "s: "
                                  \o ToString(Len(validation_results[severity]))) >>
                   ELSE <<>>])
        \o Flatten([k \in 1..Len(ReportSeverities) |->
               SeverityDetail(validation_results, ReportSeverities[k])])

(***************************************************************************)
(* main: process_document on every document of the input (one file, or    *)
(* the Word documents found under a directory), the aggregated mapping,    *)
(* the report and the exit code.                                           *)
(***************************************************************************)
MainPaths == {"a.docx", "b.docx", "c.docx", "broken.docx"}

(* The file behind each path: a document with an empty title, a table      *)
(* without header and a hyperlink without target; a plain document; a      *)
(* document on which check_styles raises; a file that is not a docx        *)
(* package.                                                                *)
DocAt(name) ==
    CASE name = "a.docx" ->
            [BaseDoc EXCEPT !.props = [BaseDoc.props EXCEPT !["title"] = ""],
                            !.tables = <<TBlank>>,
                            !.rels = <<[target |-> ""]>>]
      [] name = "b.docx" -> BaseDoc
      [] name = "c.docx" -> [BaseDoc EXCEPT !.fault = "check_styles"]
      [] OTHER -> NoDoc

MainOrigin(name) == LocalOrigin(name, ".docx", TRUE, name = "broken.docx")

(* find_word_documents, or the single file given: distinct paths.          *)
WordDocLists ==
    {l \in SeqsUpTo(MainPaths, MaxDocs) :
        \A i, j \in 1..Len(l) : i # j => l[i] # l[j]}

(* all_results[severity].extend(issues) for every severity of results.     *)
Extend(all, res) ==
    [s \in DOMAIN all \cup DOMAIN res |-> Get(all, s) \o Get(res, s)]

MainInit ==
    /\ word_docs \in WordDocLists
    /\ processed = 0
    /\ all_results = <<>>
    /\ report = <<>>
    /\ exit_code = "none"
    /\ task_status = <<>>
    /\ background = <<>>
    /\ query = [at |-> "idle"]
    /\ response = [code |-> 0]
    /\ file_path = LocalOrigin("", "", FALSE, FALSE)
    /\ document = NoDoc
    /\ env = DefaultEnv
    /\ entry = "process_document"
    /\ hash_seed = "seed_a"
    /\ doc = NoDoc
    /\ issues = <<>>
    /\ styles_used = {}
    /\ hyperlinks = <<>>
    /\ bookmarks = {}
    /\ tables = <<>>
    /\ temp_file = NoFile
    /\ fs = {}
    /\ temp_count = 0
    /\ created = {}
    /\ requests = <<>>
    /\ pc = "main"
    /\ next_rule = 1
    /\ executed = {}
    /\ raised = NoRule
    /\ loads = <<>>
    /\ returned = NotReturned
    /\ results = <<>>
    /\ run = 1
    /\ prev_results = <<>>

(* main calls process_document on the next document: a new validator and   *)
(* an empty results mapping.                                               *)
MainProcessNext ==
    /\ pc = "main"
    /\ processed < Len(word_docs)
    /\ file_path' = MainOrigin(word_docs[processed + 1])
    /\ document' = DocAt(word_docs[processed + 1])
    /\ doc' = NoDoc
    /\ issues' = <<>>
    /\ styles_used' = {}
    /\ hyperlinks' = <<>>
    /\ bookmarks' = {}
    /\ tables' = <<>>
    /\ temp_file' = NoFile
    /\ created' = {}
    /\ requests' = <<>>
    /\ pc' = "start"
    /\ next_rule' = 1
    /\ executed' = {}
    /\ raised' = NoRule
    /\ loads' = <<>>
    /\ returned' = NotReturned
    /\ results' = <<>>
    /\ UNCHANGED << env, entry, hash_seed, fs, temp_count, run, prev_results >>
    /\ UNCHANGED main_vars
    /\ UNCHANGED api_vars

(* process_document returned: main extends all_results with its mapping.   *)
MainExtend ==
    /\ pc = "done"
    /\ processed < Len(word_docs)
    /\ all_results' = Extend(all_results, results)
    /\ processed' = processed + 1
    /\ pc' = "main"
    /\ UNCHANGED << inputs, hash_seed, doc, issues, styles_used, hyperlinks,
                    bookmarks, tables, temp_file, fs, temp_count, created,
                    requests, next_rule, executed, raised, loads, returned,
                    results, run, prev_results, word_docs, report, exit_code >>
    /\ UNCHANGED api_vars

(* No Word document under the directory: main returns 1 without a report.  *)
MainNoDocuments ==
    /\ pc = "main"
    /\ word_docs = <<>>
    /\ exit_code' = "1"
    /\ pc' = "exited"
    /\ UNCHANGED << inputs, hash_seed, doc, issues, styles_used, hyperlinks,
                    bookmarks, tables, temp_file, fs, temp_count, created,
                    requests, next_rule, executed, raised, loads, returned,
                    results, run, prev_results, word_docs, processed,
                    all_results, report >>
    /\ UNCHANGED api_vars

(* All documents processed: the report is written and main returns 1 when  *)
(* some Error record exists, 0 otherwise.                                  *)
GenerateReport ==
    /\ pc = "main"
    /\ word_docs # <<>>
    /\ processed = Len(word_docs)
    /\ report' = generate_report(all_results)
    /\ exit_code' = IF Get(all_results, "Error") # <<>> THEN "1" ELSE "0"
    /\ pc' = "reported"
    /\ UNCHANGED << inputs, hash_seed, doc, issues, styles_used, hyperlinks,
                    bookmarks, tables, temp_file, fs, temp_count, created,
                    requests, next_rule, executed, raised, loads, returned,
                    results, run, prev_results, word_docs, processed,
                    all_results >>
    /\ UNCHANGED api_vars

MainNext ==
    \/ MainProcessNext
    \/ ProcessDocumentLoad
    \/ RunAllChecksLoad
    \/ RunRule
    \/ RuleRaises
    \/ ProcessReturned
    \/ MainExtend
    \/ MainNoDocuments
    \/ GenerateReport

MainSpec == MainInit /\ [][MainNext]_vars

(***************************************************************************)
(* api.py: the summarization jobs.  start_summarization registers a job    *)
(* and queues its background task; process_summarization is that task, run *)
(* in a worker thread after the response is sent; get_summarization_status *)
(* runs on the event loop and reads the job's entry field by field, so the *)
(* task's update can fall between two of its reads.                        *)
(***************************************************************************)
JobIds == {"j" \o ToString(i) : i \in 1..MaxJobs}

(* A job id no call of start_summarization has returned.                   *)
UnknownJob == "j0"

None == "None"

(* process_onedrive_folder returns a summary with status success or error; *)
(* an exception raised while its own handler builds the error summary      *)
(* leaves it.                                                              *)
FolderOutcomes == {"success", "error", "raises"}

NewTask ==
    [status |-> "processing", message |-> "Task started", result |-> None,
     ended |-> FALSE]

Completed(task, result) ==
    [task EXCEPT !.status = "completed",
                 !.message = "Summarization completed successfully",
                 !.result = result, !.ended = TRUE]

Failed(task, message) ==
    [task EXCEPT !.status = "failed", !.message = message, !.ended = TRUE]

(* `if task["status"] == "completed"`                                      *)
SummaryAttached(status) == status = "completed"

(* start_summarization, on the event loop: it runs between two calls of    *)
(* get_summarization_status, never inside one.  uuid4 gives a new id.      *)
StartSummarization ==
    /\ query.at = "idle"
    /\ \E job_id \in JobIds \ DOMAIN task_status :
          /\ task_status' = (job_id :> NewTask) @@ task_status
          /\ background' = (job_id :> "queued") @@ background
          /\ response' = [code |-> 200, job_id |-> job_id, status |-> "started",
                          message |-> "Summarization started for folder",
                          summary |-> None]
    /\ UNCHANGED query
    /\ UNCHANGED << inputs, hash_seed, doc, issues, styles_used, hyperlinks,
                    bookmarks, tables, temp_file, fs, temp_count, created,
                    requests, pc, next_rule, executed, raised, loads, returned,
                    results, run, prev_results >>
    /\ UNCHANGED main_vars

(* The background task of a job, in its worker thread.                     *)
ProcessSummarization ==
    /\ \E job_id \in DOMAIN background, outcome \in FolderOutcomes :
          /\ background[job_id] = "queued"
          /\ task_status' =
                [task_status EXCEPT ![job_id] =
                    IF outcome = "raises" THEN Failed(@, "error")
                    ELSE Completed(@, outcome)]
          /\ background' = [background EXCEPT ![job_id] = "finished"]
    /\ UNCHANGED << query, response >>
    /\ UNCHANGED << inputs, hash_seed, doc, issues, styles_used, hyperlinks,
                    bookmarks, tables, temp_file, fs, temp_count, created,
                    requests, pc, next_rule, executed, raised, loads, returned,
                    results, run, prev_results >>
    /\ UNCHANGED main_vars

(* get_summarization_status: task_status.get(job_id), 404 when there is no *)
(* entry, else the read of task["status"] for the response.                *)
QueryLookup ==
    /\ query.at = "idle"
    /\ \E job_id \in JobIds \cup {UnknownJob} :
          IF job_id \notin DOMAIN task_status
          THEN /\ response' = [code |-> 404, job_id |-> job_id,
                               status |-> None, message |-> "Task not found",
                               summary |-> None]
               /\ UNCHANGED query
          ELSE /\ query' = [at |-> "status", job_id |-> job_id,
                            status |-> task_status[job_id].status]
               /\ UNCHANGED response
    /\ UNCHANGED << task_status, background >>
    /\ UNCHANGED << inputs, hash_seed, doc, issues, styles_used, hyperlinks,
                    bookmarks, tables, temp_file, fs, temp_count, created,
                    requests, pc, next_rule, executed, raised, loads, returned,
                    results, run, prev_results >>
    /\ UNCHANGED main_vars

(* The read of task["message"] for the response.                           *)
QueryMessage ==
    /\ query.at = "status"
    /\ query' = [at |-> "message", job_id |-> query.job_id,
                 status |-> query.status,
                 message |-> task_status[query.job_id].message]
    /\ UNCHANGED << task_status, background, response >>
    /\ UNCHANGED << inputs, hash_seed, doc, issues, styles_used, hyperlinks,
                    bookmarks, tables, temp_file, fs, temp_count, created,
                    requests, pc, next_rule, executed, raised, loads, returned,
                    results, run, prev_results >>
    /\ UNCHANGED main_vars

(* The second read of task["status"], the read of task["result"] when it   *)
(* is 'completed', and the return.                                         *)
QueryReturn ==
    /\ query.at = "message"
    /\ response' =
          [code |-> 200, job_id |-> query.job_id, status |-> query.status,
           message |-> query.message,
           summary |-> IF SummaryAttached(task_status[query.job_id].status)
                       THEN task_status[query.job_id].result ELSE None]
    /\ query' = [at |-> "idle"]
    /\ UNCHANGED << task_status, background >>
    /\ UNCHANGED << inputs, hash_seed, doc, issues, styles_used, hyperlinks,
                    bookmarks, tables, temp_file, fs, temp_count, created,
                    requests, pc, next_rule, executed, raised, loads, returned,
                    results, run, prev_results >>
    /\ UNCHANGED main_vars

ApiInit == MainInit /\ word_docs = <<>>

ApiNext ==
    \/ StartSummarization
    \/ ProcessSummarization
    \/ QueryLookup
    \/ QueryMessage
    \/ QueryReturn

ApiSpec == ApiInit /\ [][ApiNext]_vars

(***************************************************************************)
(* Properties.                                                             *)
(***************************************************************************)
RecordsOf(list) ==
    [i \in 1..Len(list) |->
        Record(list[i].issue, list[i].location, list[i].details)]

HasIssue(list, labels, severity) ==
    \E i \in 1..Len(list) :
        list[i].issue \in labels /\ list[i].severity = severity

ProcessDocumentDone == entry = "process_document" /\ pc = "done"

(* C1: when a rule raises on a loaded document, the result of              *)
(* run_all_checks holds an Error issue for that rule, every later rule has *)
(* run, and the issues of all other rules are in the returned list.        *)
C1_RuleFailureIsolated ==
    (pc = "done" /\ raised # NoRule) =>
        /\ returned.called
        /\ \A i \in (RuleIndex(raised) + 1)..NumRules : RuleOrder[i] \in executed
        /\ \E i \in 1..Len(returned.value) :
              /\ returned.value[i].severity = "Error"
              /\ returned.value[i] \in
                    Range(RuleOutcome(raised, doc, hash_seed, env.xpath_namespaces))
        /\ \A r \in RuleNames \ {raised} :
              Range(RuleIssues(r, doc, hash_seed, env.xpath_namespaces))
                  \subseteq Range(returned.value)

(* C2: when process_document returns for a remote origin, every temporary  *)
(* file created during the call has been deleted, and at any moment the    *)
(* only created file still on disk is the one self.temp_file names.        *)
C2_TempFilesReleased ==
    (entry = "process_document" /\ file_path.sharepoint) =>
        /\ (created \cap fs) \subseteq {temp_file}
        /\ pc = "done" => created \cap fs = {}

FailingOrigin ==
    \/ file_path.name = ""
    \/ file_path.ext \notin {".docx", ".doc"}
    \/ ~file_path.sharepoint /\ ~file_path.exists
    \/ file_path.corrupt

(* C4: load_document never lets an exception out; it returns False for an  *)
(* empty path, an unsupported extension, a missing local file, a failed    *)
(* download and an unparsable file, and True only with self.doc set and    *)
(* the Collector pass done.                                                *)
C4_LoadNeverRaises ==
    \A i \in 1..Len(loads) :
        /\ ~loads[i].raised
        /\ (FailingOrigin \/ loads[i].download = "no_content") => ~loads[i].ret
        /\ loads[i].ret =>
              /\ [doc EXCEPT !.hdrftr_defs = document.hdrftr_defs] = document
              /\ doc.loaded
        /\ (i = Len(loads) /\ loads[i].ret) =>
              /\ styles_used = {doc.styles[k].name : k \in 1..Len(doc.styles)}
              /\ Len(tables) >= Len(doc.tables)
              /\ SubSeq(tables, Len(tables) - Len(doc.tables) + 1, Len(tables))
                    = CollectedTables(doc)
              /\ Len(hyperlinks) >= Len(doc.rels)
              /\ SubSeq(hyperlinks, Len(hyperlinks) - Len(doc.rels) + 1,
                        Len(hyperlinks)) = CollectedHyperlinks(doc)

C4_Witness ==
    /\ Len(loads) = 1
    /\ file_path.sharepoint
    /\ file_path.corrupt
    /\ loads[1].download = "content"
    /\ ~loads[1].ret
    /\ HasIssue(issues, {"Document Load Error"}, "Error")

(* C5: run_all_checks on an origin with an unsupported extension returns   *)
(* exactly one issue, an Error 'Unsupported File Type'; on a missing       *)
(* .docx/.doc path exactly one issue, an Error 'File Not Found'; no rule   *)
(* has run in either case.                                                 *)
C5_LocalLoadFailure ==
    returned.called =>
        /\ (file_path.name # "" /\ file_path.ext \notin {".docx", ".doc"}) =>
              /\ Len(returned.value) = 1
              /\ returned.value[1].issue = "Unsupported File Type"
              /\ returned.value[1].severity = "Error"
              /\ executed = {}
        /\ (/\ file_path.ext \in {".docx", ".doc"}
            /\ ~file_path.sharepoint
            /\ ~file_path.exists) =>
              /\ Len(returned.value) = 1
              /\ returned.value[1].issue = "File Not Found"
              /\ returned.value[1].severity = "Error"
              /\ executed = {}

C5_Witness ==
    /\ returned.called
    /\ file_path.name = "missing.docx"
    /\ returned.value[1].issue = "File Not Found"

(* C6: whenever download_sharepoint_file yields no content, the issue list *)
(* holds an Error 'Configuration Error' or 'Download Failed' and the load  *)
(* returns False.                                                          *)
C6_RemoteFailureRecorded ==
    \A i \in 1..Len(loads) :
        loads[i].download = "no_content" =>
            /\ ~loads[i].ret
            /\ HasIssue(issues, {"Configuration Error", "Download Failed"}, "Error")

(* C7: process_document returns a non-empty mapping; when a load of the    *)
(* document failed, or an exception left run_all_checks, the mapping holds *)
(* a record under 'Error'.                                                 *)
C7_FailureHasErrorRecord ==
    ProcessDocumentDone =>
        /\ results # <<>>
        /\ (\E i \in 1..Len(loads) : ~loads[i].ret) => Get(results, "Error") # <<>>
        /\ (raised # NoRule /\ ~RuleCatches(raised)) => Get(results, "Error") # <<>>

(* C8: when the rules of a process_document call run, the table index      *)
(* holds one entry per table (indexes 1..N, each once) and the hyperlink   *)
(* index one entry per hyperlink relationship.                             *)
C8_CollectorOnce ==
    (entry = "process_document" /\ pc = "rules") =>
        /\ tables = CollectedTables(doc)
        /\ hyperlinks = CollectedHyperlinks(doc)

WellFormed(res) ==
    /\ DOMAIN res \subseteq Severities
    /\ \A s \in DOMAIN res : \A i \in 1..Len(res[s]) :
          DOMAIN res[s][i] = {"file", "issue", "location", "details"}

(* C9 as stated: the mapping has keys among Error, Warning, Info, records  *)
(* of the four fields, and under each severity exactly the validator's     *)
(* issues of that severity, in insertion order.                            *)
C9_OutputShapeAsStated ==
    ProcessDocumentDone =>
        /\ WellFormed(results)
        /\ \A s \in Severities :
              Get(results, s) = RecordsOf(SelectSeqBy(issues, s))

(* C9, amended: the mapping has keys among Error, Warning, Info and        *)
(* records of the four fields; when run_all_checks returned a non-empty    *)
(* list (the validator's issue list), each severity holds exactly the      *)
(* issues of that severity of that list, in insertion order; otherwise the *)
(* mapping is one record: Error 'Failed to load document' when             *)
(* process_document's own load failed, Error 'Validation Error' when an    *)
(* exception left run_all_checks, Info 'No Issues Found' when the returned *)
(* list was empty.                                                         *)
C9_OutputShape ==
    ProcessDocumentDone =>
        /\ WellFormed(results)
        /\ (returned.called /\ returned.value # <<>>) =>
              /\ returned.value = issues
              /\ \A s \in Severities :
                    Get(results, s) = RecordsOf(SelectSeqBy(issues, s))
        /\ (returned.called /\ returned.value = <<>>) =>
              results = ("Info" :> <<NoIssuesFound>>)
        /\ (~returned.called /\ ~loads[1].ret) =>
              results = ("Error" :> <<FailedToLoad>>)
        /\ (~returned.called /\ loads[1].ret) =>
              /\ raised # NoRule
              /\ results = ("Error" :> <<ValidationError>>)

C9_Witness ==
    /\ ProcessDocumentDone
    /\ returned.called
    /\ Len(Get(results, "Warning")) >= 2
    /\ Len(Get(results, "Info")) >= 2
    /\ Get(results, "Error") # <<>>

NumEmpty(d) == Cardinality({p \in PropNames : d.props[p] = ""})

NumBlank(d) == Cardinality({p \in PropNames : Strip(d.props[p]) = ""})

(* C10 as stated: once both property rules have run, the issue list holds  *)
(* as many 'Missing Document Property' issues and as many 'Empty Key       *)
(* Property' issues as there are empty properties among the five.          *)
C10_PropertyCountsAsStated ==
    "check_empty_key_properties" \in executed =>
        /\ CountLabel(issues, "Missing Document Property") = NumEmpty(doc)
        /\ CountLabel(issues, "Empty Key Property") = NumEmpty(doc)

(* C10, amended: once check_document_properties has run the list holds one *)
(* Warning 'Missing Document Property' per property that is the empty      *)
(* string, and once check_empty_key_properties has run one Warning 'Empty  *)
(* Key Property' per property that is empty or whitespace only; 5 and 5    *)
(* when all five are empty strings.                                        *)
C10_PropertyCounts ==
    /\ "check_document_properties" \in executed =>
          /\ CountLabel(issues, "Missing Document Property") = NumEmpty(doc)
          /\ \A i \in 1..Len(issues) :
                issues[i].issue = "Missing Document Property"
                    => issues[i].severity = "Warning"
    /\ "check_empty_key_properties" \in executed =>
          /\ CountLabel(issues, "Empty Key Property") = NumBlank(doc)
          /\ \A i \in 1..Len(issues) :
                issues[i].issue = "Empty Key Property"
                    => issues[i].severity = "Warning"
          /\ NumEmpty(doc) = 5 =>
                /\ CountLabel(issues, "Missing Document Property") = 5
                /\ CountLabel(issues, "Empty Key Property") = 5

C10_Witness ==
    /\ pc = "done"
    /\ returned.called
    /\ "check_empty_key_properties" \in executed
    /\ \A p \in PropNames : doc.props[p] = ""
    /\ CountLabel(returned.value, "Missing Document Property") = 5
    /\ CountLabel(returned.value, "Empty Key Property") = 5

IssuesAt(list, labels, location) ==
    {i \in 1..Len(list) :
        list[i].issue \in labels /\ list[i].location = location}

StrippedRow(t, r) == [c \in 1..Len(t.rows[r]) |-> Strip(t.rows[r][c])]

(* A table without a header-row mark whose first-row cells are all         *)
(* non-empty and, when there is a second row, differ from its cells.       *)
HeaderedByText(t) ==
    /\ ~t.hdr
    /\ t.rows # <<>>
    /\ \A c \in 1..Len(t.rows[1]) : Strip(t.rows[1][c]) # ""
    /\ Len(t.rows) >= 2 => StrippedRow(t, 1) # StrippedRow(t, 2)

(* C11: after run_all_checks has returned for a loaded document, no        *)
(* 'Table Missing Headers' and no 'Table Header' issue is located at a     *)
(* table whose first row is all non-empty and differs from the second row, *)
(* nor at a single-row table with non-empty cells.                         *)
C11_HeaderClassification ==
    (returned.called /\ doc.loaded) =>
        \A i \in 1..Len(doc.tables) :
            HeaderedByText(doc.tables[i]) =>
                IssuesAt(returned.value,
                         {"Table Missing Headers", "Table Header"},
                         "Table " \o ToString(i)) = {}

DefinedNames(d) == {d.bookmarkStarts[i].name : i \in 1..Len(d.bookmarkStarts)}

(* C12: once check_unused_bookmarks has run to its end on a document with  *)
(* defined bookmark names D and referenced anchors R, the issue list holds *)
(* exactly one Info 'Unused Bookmark' for each name of D \ R that does not *)
(* start with '_' and none for any other name, and exactly one Warning     *)
(* 'Broken Bookmark Reference' for each name of R \ D and none for any     *)
(* other name.                                                             *)
C12_BookmarkSetDifference ==
    ("check_unused_bookmarks" \in executed /\ raised # "check_unused_bookmarks"
        /\ doc.fault # "check_unused_bookmarks") =>
        LET D == DefinedNames(doc)
            R == UsedBookmarks(doc)
        IN  \A n \in BookmarkNames :
                /\ Cardinality(IssuesAt(issues, {"Unused Bookmark"},
                                        "Bookmark: " \o n))
                      = IF n \in D \ R /\ ~StartsWithUnderscore(n) THEN 1 ELSE 0
                /\ Cardinality(IssuesAt(issues, {"Broken Bookmark Reference"},
                                        "Reference: " \o n))
                      = IF n \in R \ D THEN 1 ELSE 0
                /\ \A i \in IssuesAt(issues, {"Unused Bookmark"}, "Bookmark: " \o n) :
                      issues[i].severity = "Info"
                /\ \A i \in IssuesAt(issues, {"Broken Bookmark Reference"},
                                     "Reference: " \o n) :
                      issues[i].severity = "Warning"

Occurrences(d, t) ==
    Cardinality({i \in 1..Len(d.paragraphs) : Strip(d.paragraphs[i]) = t})

(* The stripped paragraph texts longer than 50 characters that occur more  *)
(* than once.                                                              *)
DupTexts(d) ==
    {t \in {Strip(d.paragraphs[i]) : i \in 1..Len(d.paragraphs)} :
        Len(t) > 50 /\ Occurrences(d, t) > 1}

DuplicateContentIssue(d, t) ==
    ValidationResult("Duplicate Content",
        "Repeated paragraph: " \o SubSeq(t, 1, 50) \o "...",
        "This paragraph appears " \o ToString(Occurrences(d, t))
            \o " times in the document.",
        "Warning")

(* C13: once check_duplicate_content has run, the issue list holds as many *)
(* 'Duplicate Content' issues as there are distinct stripped paragraph     *)
(* texts longer than 50 characters occurring more than once; each is a     *)
(* Warning whose details give the number of occurrences of such a text,    *)
(* and every such text has its issue. Texts of 50 characters or less and   *)
(* texts occurring once have none.                                         *)
C13_DuplicateContent ==
    "check_duplicate_content" \in executed =>
        /\ CountLabel(issues, "Duplicate Content") = Cardinality(DupTexts(doc))
        /\ \A t \in DupTexts(doc) : DuplicateContentIssue(doc, t) \in Range(issues)
        /\ \A i \in 1..Len(issues) :
              issues[i].issue = "Duplicate Content" =>
                  \E t \in DupTexts(doc) : issues[i] = DuplicateContentIssue(doc, t)

C13_Witness ==
    /\ pc = "done"
    /\ "check_duplicate_content" \in executed
    /\ doc.paragraphs = <<Text60, Text40, Text60Padded>>
    /\ CountLabel(issues, "Duplicate Content") = 1
    /\ \E i \in 1..Len(issues) :
          /\ issues[i].issue = "Duplicate Content"
          /\ issues[i].details = "This paragraph appears 2 times in the document."

(* C14: once check_table_formatting has run, a Warning 'Wide Table' is     *)
(* located at a table iff the table has more than 7 columns, and a Warning *)
(* 'Small Font in Table' iff some run of its cells has an explicit font    *)
(* size below 9pt; no such issue has another severity.                     *)
C14_TableThresholds ==
    "check_table_formatting" \in executed =>
        \A i \in 1..Len(doc.tables) :
            LET at == "Table " \o ToString(i)
                t == doc.tables[i]
                wide == IssuesAt(issues, {"Wide Table"}, at)
                small == IssuesAt(issues, {"Small Font in Table"}, at)
            IN  /\ wide # {} <=> t.cols > 7
                /\ small # {} <=>
                      \E k \in 1..Len(t.fonts) : t.fonts[k] # 0 /\ t.fonts[k] < 9
                /\ \A j \in wide \cup small : issues[j].severity = "Warning"

C14_Witness ==
    /\ pc = "done"
    /\ "check_table_formatting" \in executed
    /\ doc.tables = <<TSeven, TWide>>
    /\ IssuesAt(issues, {"Wide Table", "Small Font in Table"}, "Table 1") = {}
    /\ IssuesAt(issues, {"Wide Table"}, "Table 2") # {}
    /\ IssuesAt(issues, {"Small Font in Table"}, "Table 2") # {}

(* All five required properties filled, one body paragraph in 'Normal'     *)
(* without direct formatting, no tables, no hyperlinks, a page-number      *)
(* field in a footer; in addition unprotected, language set, standard      *)
(* styles only.                                                            *)
CleanMinimal(d) ==
    /\ d.loaded
    /\ \A p \in PropNames : Strip(d.props[p]) # ""
    /\ Len(d.paragraphs) = 1
    /\ d.paragraphs[1] = Strip(d.paragraphs[1])
    /\ d.runs = <<>>
    /\ d.tables = <<>>
    /\ d.rels = <<>>
    /\ d.bookmarkStarts = <<>>
    /\ d.footerPageField
    /\ ~d.write_protected
    /\ ~d.restricted
    /\ ContainsEn(d.language)
    /\ d.fault = NoRule

(* C15: for a clean minimal document run_all_checks returns no Error issue *)
(* and every issue it returns is an Info issue labelled 'Page Layout'.     *)
C15_CleanMinimalDocument ==
    (returned.called /\ CleanMinimal(doc)) =>
        \A i \in 1..Len(returned.value) :
            /\ returned.value[i].issue = "Page Layout"
            /\ returned.value[i].severity = "Info"

(* The position, in the topic enumeration of the rule categories, of the   *)
(* topic an issue label belongs to; 0 for the labels of load failures.     *)
TopicOf(label) ==
    CASE label \in {"Missing Document Property", "Empty Key Property",
                    "Document Metadata"} -> 1
      [] label \in {"Document Protection"} -> 2
      [] label \in {"Corrupt Style", "Non-Standard Style",
                    "Modified Standard Style"} -> 3
      [] label \in {"Non-Black Text"} -> 5
      [] label \in {"Extra Whitespace", "Multiple Spaces"} -> 6
      [] label \in {"Broken Hyperlink", "Internal Link Check Error",
                    "Web Link Check Error"} -> 7
      [] label \in {"Unused Bookmark", "Broken Bookmark Reference",
                    "Bookmark Check Error"} -> 8
      [] label \in {"Table Missing Headers", "Wide Table",
                    "Small Font in Table", "Table Header", "Merged Cells",
                    "Split Cells", "Table Style",
                    "Table Processing Error"} -> 9
      [] label \in {"Page Numbers Missing"} -> 11
      [] label \in {"Duplicate Content"} -> 13
      [] label \in {"Language Setting"} -> 14
      [] label \in {"Page Layout", "Page Layout Check Error"} -> 15
      [] OTHER -> 0

(* C16: in every list run_all_checks returns, no issue of a later topic    *)
(* precedes an issue of an earlier topic of the enumeration (metadata,     *)
(* protection, styles, direct formatting, run formatting, whitespace,      *)
(* hyperlinks, bookmarks, tables, images, headers and footers, TOC and     *)
(* keywords, duplicate content, language, page layout).                    *)
C16_TopicOrder ==
    returned.called =>
        \A i, j \in 1..Len(returned.value) :
            (/\ i < j
             /\ TopicOf(returned.value[i].issue) # 0
             /\ TopicOf(returned.value[j].issue) # 0) =>
                TopicOf(returned.value[i].issue) <= TopicOf(returned.value[j].issue)

(***************************************************************************)
(* The report, read back line by line.                                     *)
(***************************************************************************)
Reported == pc = "reported"

LinesOfKind(kind) == {i \in 1..Len(report) : report[i].kind = kind}

(* The severity named by a section heading.                                *)
SeverityOfHeading(text) ==
    CASE Contains(text, "ERRORS") -> "Error"
      [] Contains(text, "WARNINGS") -> "Warning"
      [] Contains(text, "INFOS") -> "Info"
      [] OTHER -> ""

(* The file named by a file heading "\nFile: <name>".                      *)
FileOfHeading(text) == SubSeq(text, 8, Len(text))

LastBefore(kind, i) ==
    LET before == {j \in LinesOfKind(kind) : j < i}
    IN  IF before = {} THEN 0
        ELSE CHOOSE j \in before : \A k \in before : k <= j

SectionOf(i) ==
    IF LastBefore("section", i) = 0 THEN ""
    ELSE SeverityOfHeading(report[LastBefore("section", i)].text)

GroupOf(i) ==
    IF LastBefore("file", i) = 0 \/ LastBefore("file", i) < LastBefore("section", i)
    THEN ""
    ELSE FileOfHeading(report[LastBefore("file", i)].text)

SeverityRank(severity) ==
    CASE severity = "Error" -> 1
      [] severity = "Warning" -> 2
      [] severity = "Info" -> 3
      [] OTHER -> 0

(* The positions of the entries of one file under one severity, in order.  *)
EntriesOf(severity, file) ==
    SelectSeq([i \in 1..Len(report) |-> i],
              LAMBDA i : /\ report[i].kind = "entry"
                         /\ SectionOf(i) = severity
                         /\ GroupOf(i) = file)

KindAt(i) == IF i \in 1..Len(report) THEN report[i].kind ELSE "end"

(* The entry at position i renders record r as number n.                   *)
Renders(i, n, r) ==
    LET j == IF r.location # "" THEN i + 1 ELSE i
    IN  /\ report[i].text = "\n" \o ToString(n) \o ". " \o r.issue
        /\ IF r.location # ""
           THEN /\ KindAt(i + 1) = "location"
                /\ report[i + 1].text = "   Location: " \o r.location
           ELSE KindAt(i + 1) # "location"
        /\ IF r.details # ""
           THEN /\ KindAt(j + 1) = "details"
                /\ report[j + 1].text = "   Details: " \o r.details
           ELSE KindAt(j + 1) # "details"

(***************************************************************************)
(* C17: the report gives the number of files (the number of distinct       *)
(* documents processed), the total number of issues (the sum of the        *)
(* per-severity counts) and, for each severity present, the number of its  *)
(* issues.                                                                 *)
(***************************************************************************)
C17_ReportSummary ==
    Reported =>
        /\ \E i \in LinesOfKind("total_files") :
              report[i].text =
                  "- Total files processed: " \o ToString(Len(word_docs))
        /\ \A s \in DOMAIN all_results :
              \E i \in LinesOfKind("severity_count") :
                  report[i].text =
                      "- " \o s \o "s: " \o ToString(Len(all_results[s]))
        /\ \E i \in 1..Len(report) :
              Contains(report[i].text,
                       ToString(SumLen(all_results, DOMAIN all_results)))
              /\ report[i].kind \notin
                     {"total_files", "severity_count", "section", "entry",
                      "location", "details", "file"}

(***************************************************************************)
(* C18: in the report every Error entry precedes every Warning entry and   *)
(* every Warning entry precedes every Info entry; within a severity the    *)
(* entries of one file are contiguous; within one file's group the entries *)
(* are numbered 1..k in the order of the records of that file in the input *)
(* sequence, each with its label, its location (when it has one) and its   *)
(* details (when it has some).                                             *)
(***************************************************************************)
C18_ReportOrdering ==
    Reported =>
        /\ \A i, j \in LinesOfKind("entry") :
              i < j => SeverityRank(SectionOf(i)) <= SeverityRank(SectionOf(j))
        /\ \A i \in LinesOfKind("entry") :
              SeverityRank(SectionOf(i)) # 0 /\ GroupOf(i) # ""
        /\ \A i, j, k \in LinesOfKind("entry") :
              (i < j /\ j < k /\ SectionOf(i) = SectionOf(k)
                  /\ GroupOf(i) = GroupOf(k))
              => (SectionOf(j) = SectionOf(i) /\ GroupOf(j) = GroupOf(i))
        /\ \A s \in {"Error", "Warning", "Info"} :
              \A f \in {word_docs[d] : d \in 1..Len(word_docs)} :
                  LET recs == SelectSeq(Get(all_results, s),
                                        LAMBDA r : r.file = f)
                      at == EntriesOf(s, f)
                  IN  /\ Len(at) = Len(recs)
                      /\ \A n \in 1..Len(at) : Renders(at[n], n, recs[n])

(* A report of two documents with entries of the three severities, one    *)
(* file having several entries under one severity.                         *)
C18_Witness ==
    /\ Reported
    /\ Len(word_docs) = 2
    /\ \A s \in {"Error", "Warning", "Info"} :
          \E i \in LinesOfKind("entry") : SectionOf(i) = s
    /\ \E s \in {"Error", "Warning", "Info"} :
          /\ Len(EntriesOf(s, word_docs[1])) >= 2
          /\ Len(EntriesOf(s, word_docs[2])) >= 1
    /\ \E i \in LinesOfKind("entry") : KindAt(i + 1) # "location"

(***************************************************************************)
(* C19: when process_document has loaded the document and run_all_checks   *)
(* returns an empty issue list, the mapping returned by process_document   *)
(* holds exactly one record, under Info, labelled 'No Issues Found'.       *)
(***************************************************************************)
EmptyIssuesCase ==
    /\ ProcessDocumentDone
    /\ loads # <<>>
    /\ loads[1].ret
    /\ returned.called
    /\ returned.value = <<>>

C19_EmptyIssuesCase ==
    EmptyIssuesCase =>
        /\ DOMAIN results = {"Info"}
        /\ Len(results["Info"]) = 1
        /\ results["Info"][1].issue = "No Issues Found"
        /\ results["Info"][1].file = file_path.name

C19_Witness == EmptyIssuesCase /\ results # <<>>

(***************************************************************************)
(* C20: when the same bookmark name is declared more than once in the      *)
(* document, check_bookmarks appends an Error issue 'Duplicate Bookmarks'. *)
(***************************************************************************)
DeclaredTwice(d) ==
    \/ \E i, j \in 1..Len(d.runs) :
          i # j /\ d.runs[i].bookmark # "" /\ d.runs[i].bookmark = d.runs[j].bookmark
    \/ \E i, j \in 1..Len(d.bookmarkStarts) :
          i # j /\ d.bookmarkStarts[i].name = d.bookmarkStarts[j].name

C20_DuplicateBookmarks ==
    ("check_bookmarks" \in executed /\ doc # NoDoc /\ DeclaredTwice(doc)) =>
        HasIssue(issues, {"Duplicate Bookmarks"}, "Error")

(***************************************************************************)
(* C21: for every section of a loaded document check_page_layout_advanced  *)
(* appends six Info 'Page Layout' issues, one for each of the left, right, *)
(* top, bottom, header and footer distance whatever its value, and one     *)
(* Info issue with the page size and the orientation, Landscape iff the    *)
(* width exceeds the height.                                               *)
(***************************************************************************)
MarginTitles == {"Left", "Right", "Top", "Bottom", "Header", "Footer"}

PageLayoutRan ==
    /\ "check_page_layout_advanced" \in executed
    /\ raised # "check_page_layout_advanced"
    /\ doc # NoDoc

C21_PageLayoutUnconditional ==
    PageLayoutRan =>
        \A i \in 1..Len(doc.sections) :
            /\ \A t \in MarginTitles :
                  \E k \in IssuesAt(issues, {"Page Layout"},
                                    "Section " \o ToString(i) \o " " \o t) :
                      issues[k].severity = "Info"
            /\ \E k \in IssuesAt(issues, {"Page Layout"},
                                 "Section " \o ToString(i) \o " Page Size") :
                  /\ issues[k].severity = "Info"
                  /\ Contains(issues[k].details, "Landscape")
                         <=> doc.sections[i].width > doc.sections[i].height

(***************************************************************************)
(* C22: the has_header fact collected for a table is true iff its first    *)
(* row is marked as header row, or the text of the first row is non-empty  *)
(* and differs from the text of the second row; check_tables emits the     *)
(* Warning 'Table Missing Headers' for a table exactly when the fact is    *)
(* false.                                                                  *)
(***************************************************************************)
HeaderFact(t) ==
    \/ t.hdr
    \/ /\ t.rows # <<>>
       /\ \E c \in 1..Len(t.rows[1]) : Strip(t.rows[1][c]) # ""
       /\ Len(t.rows) >= 2 => StrippedRow(t, 1) # StrippedRow(t, 2)

C22_HeaderHeuristic ==
    ("check_tables" \in executed /\ raised # "check_tables" /\ doc # NoDoc) =>
        \A i \in 1..Len(doc.tables) :
            /\ \A k \in 1..Len(tables) :
                  tables[k].index = i =>
                      (tables[k].has_header <=> HeaderFact(doc.tables[i]))
            /\ (\E k \in IssuesAt(issues, {"Table Missing Headers"},
                                  "Table " \o ToString(i)) :
                    issues[k].severity = "Warning")
                   <=> ~HeaderFact(doc.tables[i])

(***************************************************************************)
(* C23: when some paragraph in a TOC style holds the field-error marker,   *)
(* whether it is the first such paragraph or a later one,                  *)
(* check_table_of_contents emits an Error 'Table of Contents Error'; the   *)
(* Info 'Missing Table of Contents' is emitted iff no paragraph is in a    *)
(* TOC style and the document has more than 10 paragraphs.                 *)
(***************************************************************************)
TocRan ==
    /\ "check_table_of_contents" \in executed
    /\ raised # "check_table_of_contents"
    /\ doc # NoDoc

TocStyled(d) == {i \in 1..Len(d.paragraphs) : StartsWithTOC(ParaStyle(d, i))}

C23_TocFieldErrors ==
    TocRan =>
        /\ (\E i \in TocStyled(doc) : Contains(doc.paragraphs[i], "Error!"))
               => HasIssue(issues, {"Table of Contents Error"}, "Error")
        /\ HasIssue(issues, {"Missing Table of Contents"}, "Info")
               <=> (TocStyled(doc) = {} /\ Len(doc.paragraphs) > 10)

(***************************************************************************)
(* C24: for each of title, subject, author, keywords and category that is  *)
(* non-empty exactly one Info 'Document Metadata' issue names it, and none *)
(* names a property that is empty; so each of the five properties has      *)
(* either the 'Missing Document Property' Warning or the disclosure Info.  *)
(***************************************************************************)
Disclosures(list, p) ==
    {i \in 1..Len(list) :
        /\ list[i].issue = "Document Metadata"
        /\ list[i].severity = "Info"
        /\ Contains(list[i].details, "'" \o p \o "'")}

MissingWarnings(list, p) ==
    {i \in 1..Len(list) :
        /\ list[i].issue = "Missing Document Property"
        /\ list[i].severity = "Warning"
        /\ Contains(list[i].details, DisplayName(p))}

C24_MetadataDisclosure ==
    (/\ {"check_document_properties", "check_metadata"} \subseteq executed
     /\ raised \notin {"check_document_properties", "check_metadata"}
     /\ doc # NoDoc) =>
        \A p \in PropNames :
            /\ doc.props[p] # "" => Cardinality(Disclosures(issues, p)) = 1
            /\ doc.props[p] = "" => Disclosures(issues, p) = {}
            /\ Disclosures(issues, p) # {} \/ MissingWarnings(issues, p) # {}

(***************************************************************************)
(* C25: check_styles emits an Error 'Corrupt Style' iff the style named    *)
(* 'Normal' has no font name, and a Warning 'Non-Standard Style' for       *)
(* exactly the paragraph styles whose name is none of Heading 1, Heading   *)
(* 2, Heading 3, Normal, Body Text, List Paragraph, Table Grid, Table      *)
(* Normal and does not start with 'Heading'; character and table styles    *)
(* never produce the Warning.                                              *)
(***************************************************************************)
StylesRan ==
    /\ "check_styles" \in executed
    /\ raised # "check_styles"
    /\ doc # NoDoc

NonStandard(st) ==
    /\ st.type = "paragraph"
    /\ st.name \notin {"Heading 1", "Heading 2", "Heading 3", "Normal",
                       "Body Text", "List Paragraph", "Table Grid",
                       "Table Normal"}
    /\ ~(Len(st.name) >= 7 /\ SubSeq(st.name, 1, 7) = "Heading")

C25_StyleHygiene ==
    StylesRan =>
        /\ HasIssue(issues, {"Corrupt Style"}, "Error")
               <=> \E i \in 1..Len(doc.styles) :
                       doc.styles[i].name = "Normal" /\ doc.styles[i].font = ""
        /\ \A k \in 1..Len(issues) :
              /\ issues[k].issue = "Corrupt Style" => issues[k].severity = "Error"
              /\ issues[k].issue = "Non-Standard Style" =>
                    /\ issues[k].severity = "Warning"
                    /\ \E i \in 1..Len(doc.styles) :
                          /\ issues[k].location = "Style: " \o doc.styles[i].name
                          /\ NonStandard(doc.styles[i])
        /\ \A i \in 1..Len(doc.styles) :
              Cardinality(IssuesAt(issues, {"Non-Standard Style"},
                                   "Style: " \o doc.styles[i].name))
                  = Cardinality({j \in 1..Len(doc.styles) :
                                    /\ doc.styles[j].name = doc.styles[i].name
                                    /\ NonStandard(doc.styles[j])})

(* 'Normal' without a font name next to a character style and a paragraph  *)
(* style outside the whitelist.                                            *)
C25_Witness ==
    /\ StylesRan
    /\ Len(doc.styles) = 3
    /\ doc.styles[1] = StNormalNoFont
    /\ doc.styles[2].type = "character"
    /\ doc.styles[3].name = "Title"
    /\ HasIssue(issues, {"Corrupt Style"}, "Error")
    /\ HasIssue(issues, {"Non-Standard Style"}, "Warning")

(***************************************************************************)
(* C26: within one load the candidate endpoints are requested in their     *)
(* listed order, each at most once; the first that returns metadata ends   *)
(* the sequence; the content is requested only after a candidate answered; *)
(* so a load makes at most four metadata requests and one content request. *)
(***************************************************************************)
C26_EndpointOrder ==
    /\ Len(requests) <= 5
    /\ \A i \in 1..Len(requests) :
          IF requests[i].name = "content"
          THEN /\ i = Len(requests)
               /\ i > 1
               /\ requests[i - 1].name # "content"
               /\ requests[i - 1].ok
          ELSE /\ i <= 4
               /\ requests[i].name = "metadata" \o ToString(i)
               /\ requests[i].ok => \A j \in (i + 1)..Len(requests) :
                                        requests[j].name = "content"

(* The third candidate answered after two failed, and the content was      *)
(* requested.                                                              *)
C26_Witness ==
    /\ Len(requests) = 4
    /\ ~requests[1].ok
    /\ ~requests[2].ok
    /\ requests[3].ok
    /\ requests[4].name = "content"

(***************************************************************************)
(* C27: for a sharing link, whatever its shape, a load resolves the file   *)
(* id from the sourcedoc parameter when present (URL-decoded, braces       *)
(* stripped), otherwise from the sharing token of the fragment, otherwise  *)
(* from the trailing path segment, and requests that id; when no non-empty *)
(* id results, a 'Configuration Error' Error is recorded and no request is *)
(* made.                                                                   *)
(***************************************************************************)
ResolvedId(o) ==
    IF o.sourcedoc \notin {"absent", ""} /\ StripBraces(Unquote(o.sourcedoc)) # ""
    THEN StripBraces(Unquote(o.sourcedoc))
    ELSE IF o.fragment \notin {"absent", ""} THEN o.fragment
    ELSE o.lastPart

C27_IdentifierResolution ==
    (file_path.sharepoint /\ loads # <<>> /\ env.token /\ env.drive) =>
        IF ResolvedId(file_path) = ""
        THEN /\ HasIssue(issues, {"Configuration Error"}, "Error")
             /\ requests = <<>>
        ELSE /\ requests # <<>>
             /\ \A i \in 1..Len(requests) :
                   requests[i].file_id = ResolvedId(file_path)

(***************************************************************************)
(* C28: every rule run by run_all_checks leaves the loaded Document, the   *)
(* styles in use, the hyperlink list and the table list unchanged, and the *)
(* issue list before the rule is a prefix of the issue list after it.      *)
(***************************************************************************)
RuleStep == pc = "rules" /\ next_rule' = next_rule + 1

C28_RulesAppendOnly ==
    [][RuleStep =>
          /\ doc' = doc
          /\ styles_used' = styles_used
          /\ hyperlinks' = hyperlinks
          /\ tables' = tables
          /\ IsPrefix(issues, issues')]_vars

(***************************************************************************)
(* C29: when run_all_checks returns after its load succeeded, the list it  *)
(* returns holds an issue labelled 'Document Protection' and so is not     *)
(* empty; and process_document never records 'No Issues Found' for a       *)
(* document it has loaded.                                                 *)
(***************************************************************************)
ReturnedAfterLoad ==
    /\ returned.called
    /\ loads # <<>>
    /\ loads[Len(loads)].ret

ProtectionReported ==
    ReturnedAfterLoad =>
        \E i \in 1..Len(returned.value) :
            /\ returned.value[i].issue = "Document Protection"
            /\ returned.value[i].severity \in {"Warning", "Info"}

C29_ProtectionAlwaysReported ==
    /\ ProtectionReported
    /\ (ProcessDocumentDone /\ loads # <<>> /\ loads[1].ret) =>
           \A i \in 1..Len(Get(results, "Info")) :
               results["Info"][i].issue # "No Issues Found"

(***************************************************************************)
(* Summarization jobs: the stored entries.  The domains of task_status and *)
(* of the scheduled tasks agree, a stored status is one of the three       *)
(* values, and a summary is attached only while the stored status is       *)
(* 'completed'.                                                            *)
(***************************************************************************)
JobStatusInv ==
    /\ DOMAIN background = DOMAIN task_status
    /\ \A j \in DOMAIN task_status :
          /\ task_status[j].status \in {"processing", "completed", "failed"}
          /\ background[j] = "queued" <=> task_status[j].status = "processing"
          /\ task_status[j].status = "completed" <=> task_status[j].result # None
    /\ (response.code = 200 /\ response.summary # None) =>
          /\ response.job_id \in DOMAIN task_status
          /\ task_status[response.job_id].status = "completed"
          /\ response.summary = task_status[response.job_id].result

JobStep ==
    /\ \A j \in DOMAIN task_status' :
          IF j \notin DOMAIN task_status
          THEN /\ task_status'[j].status = "processing"
               /\ background'[j] = "queued"
          ELSE task_status'[j] # task_status[j] =>
                   /\ task_status[j].status = "processing"
                   /\ task_status'[j].status \in {"completed", "failed"}
                   /\ background[j] = "queued"
                   /\ background'[j] = "finished"
    /\ DOMAIN task_status \subseteq DOMAIN task_status'
    /\ response' # response =>
          /\ response'.code = 404 <=> response'.job_id \notin DOMAIN task_status'
          /\ response'.code = 404 => task_status' = task_status

(* The response of a status query carries a summary only with the status   *)
(* 'completed'.                                                            *)
SummaryOnlyCompleted ==
    (response.code = 200 /\ response.summary # None) =>
        response.status = "completed"

(***************************************************************************)
(* C30: a job is registered with status 'processing' before its background *)
(* task can run; the task moves the status once, to 'completed' or         *)
(* 'failed', and the status never changes afterwards; the stored status is *)
(* always one of processing, completed, failed; a status query returns a   *)
(* summary only when the status is 'completed'; a query for an             *)
(* unregistered job id answers 404 and creates no entry.                   *)
(***************************************************************************)
C30_JobLifecycle ==
    /\ []JobStatusInv
    /\ [][JobStep]_vars
    /\ []SummaryOnlyCompleted

====
